---- MODULE Spec2Model ----
(***************************************************************************)
(* SignalScribe: the ingestion pipeline                                    *)
(*     FolderWatcher -> decoding_queue -> Decoder -> transcribing_queue    *)
(*     -> transcriber worker process -> output_queue -> Output -> CSV      *)
(* its supervisor (SignalScribeApp and main) and the TrackedQueue wrapper. *)
(*                                                                         *)
(* Specifications:                                                         *)
(*   Spec      the pipeline as SignalScribeApp.setup composes it, from the *)
(*             moment the components have been constructed (Decoder and    *)
(*             Output threads started by their constructors, the worker    *)
(*             process started by Transcriber.__init__) and                *)
(*             print_parameters is entered, through run(), SIGINT, stop()  *)
(*             and process exit.  The queues are used here through their   *)
(*             put/get as single steps; the size counter, which no         *)
(*             pipeline decision reads, is modelled in TQSpec.             *)
(*   FairSpec  Spec with weak fairness of the main thread (Supervisor).    *)
(*   TQSpec    one TrackedQueue with a producer and a consumer, at the     *)
(*             granularity of the statements of put and get.               *)
(*   WatchSpec   FolderWatcherHandler: one filesystem event at a time is   *)
(*             dispatched by its patterns and handled.                     *)
(*   ColorsSpec  the highlight rules: _update_colors of the observer       *)
(*             thread against _highlight_text of the Output thread, at     *)
(*             the granularity of their statements.                        *)
(*   ModelSpec   one call of ModelManager.ensure_models_exist on a model   *)
(*             directory found in any state.                               *)
(*   CatalogSpec the catalog of models: fetched, written to models.json    *)
(*             piece by piece, read back and validated.                    *)
(*   DecoderSpec the Decoder thread with its two queues, _load_audio with  *)
(*             its temporary file, and Decoder.shutdown.                   *)
(*   SampleSpec  wav_to_np on a file of one 16-bit sample.                 *)
(*   HighlightSpec  one call of Output._highlight_text on a transcript of  *)
(*             up to MaxText characters.                                   *)
(* The component specifications start from the one initial state with the  *)
(* .bin file there and no CSV file; their inputs are drawn by their first  *)
(* steps.                                                                  *)
(*                                                                         *)
(* A file is identified by a number 1..MaxFiles; the Transcription object  *)
(* made for it carries that number, whether its audio is set and whether   *)
(* its text is set.  The None sentinel is the item with id 0.              *)
(*                                                                         *)
(* Inputs drawn in the initial state: whether the model's .bin file is     *)
(* there when the worker starts, and what the CSV path holds at startup    *)
(* (nothing, an empty file, or the header and a row of an earlier run).    *)
(*                                                                         *)
(* Taken as given: at most one SIGINT, delivered to the main process;      *)
(* Process.terminate() takes effect at once; the daemon threads end with   *)
(* the main process.                                                       *)
(***************************************************************************)
EXTENDS Integers, Sequences, FiniteSets, TLC

\* ---- bounds of the model ----
MaxFiles == 2
\* polls of Transcriber.stop before the deadline expires (the code: 10.0 s in
\* steps of 0.1 s); the relative speed of supervisor and worker is arbitrary
StopPolls == 2
\* reloads of colors.yaml ColorsSpec follows
MaxReloads == 2
\* length of the transcripts HighlightSpec highlights
MaxText == 3
\* recordings DecoderSpec offers to the Decoder
MaxJobs == 2
\* writes of models.json CatalogSpec follows
MaxWrites == 2
\* filesystem events WatchSpec follows
MaxEvents == 2
\* polls of print_parameters the model follows
MaxPolls == 201
\* items the producer of TQSpec puts
MaxPuts == 4

\* ---- program constants ----
\* print_parameters: max_wait = 20.0 s and wait_interval = 0.1 s, in units of
\* wait_interval
max_wait == 200
wait_interval == 1

\* the exit status of the main process
NoExit == "running"
EXIT_OK == "exit 0"
EXIT_ERROR == "exit 1"
\* the header row of the CSV; the row of a Job is its file's number
Header == 0
\* a row an earlier run appended to the CSV
OldRow == MaxFiles + 1

INITIALISED == "Initialised"
LOADING == "Loading"
RUNNING == "Running"
SHUTDOWN == "Shutdown"
ERROR == "Error"
TranscriberStatus == {INITIALISED, LOADING, RUNNING, SHUTDOWN, ERROR}

Files == 1..MaxFiles

\* Transcription.__init__: audio = None, text = None
Transcription(f) == [id |-> f, audio |-> FALSE, text |-> FALSE]
\* the None sentinel Transcriber.stop puts on the transcribing queue
NoneItem == [id |-> 0, audio |-> FALSE, text |-> FALSE]

\* ---- the highlight rules (ColorsSpec) ----
\* a rule set is a set of rules, each a colour and a phrase
Rule(c, ph) == [color |-> c, phrase |-> ph]
RuleSets == { {Rule("red", "fire")},
              {Rule("blue", "medic"), Rule("red", "alarm")} }
\* what colors.yaml can hold: text that is not YAML, or YAML whose valid
\* colours make a rule set (none at all included)
InvalidYaml == [yaml_ok |-> FALSE, rules |-> {}]
ColorsFiles ==
  {InvalidYaml} \cup {[yaml_ok |-> TRUE, rules |-> r] : r \in RuleSets \cup {{}}}
NoColorsFile == [yaml_ok |-> TRUE, rules |-> {}]

\* ---- the model directory (ModelSpec) ----
\* what a file of the model directory can hold
GgmlBytes == "ggml-large-v3-turbo.bin as published"
CoremlBytes == "ggml-large-v3-turbo-encoder.mlmodelc.zip as published"
OtherBytes == "other bytes"
TruncatedBytes == "truncated bytes"
Absent == "absent"
Contents == {GgmlBytes, CoremlBytes, OtherBytes, TruncatedBytes}
\* hashlib.sha256 of a file's bytes: one digest per content
Sha256(c) ==
  CASE c = GgmlBytes -> "1fc70f77"
    [] c = CoremlBytes -> "84bedfe8"
    [] c = OtherBytes -> "2cf24dba"
    [] c = TruncatedBytes -> "e3b0c442"
\* MODEL_INFO["large-v3-turbo"]["files"][file_type]["sha256"]
MODEL_INFO == [ggml |-> "1fc70f77", coreml |-> "84bedfe8"]
\* the model directory: the two downloaded files and the directory the
\* CoreML archive is extracted to
Dirs == [ggml : Contents \cup {Absent}, coreml : Contents \cup {Absent},
         mlmodelc : BOOLEAN]
EmptyDir == [ggml |-> Absent, coreml |-> Absent, mlmodelc |-> FALSE]

\* ---- the recordings the Decoder is given (DecoderSpec) ----
\* a Transcription of DecoderSpec: the number of its file, the extension of
\* its filepath, whether its audio is set
Job(n, e) == [id |-> n, ext |-> e, audio |-> FALSE]
NoJob == [id |-> 0, ext |-> "", audio |-> FALSE]
Extensions == {"wav", "mp3"}

\* ---- the samples of a WAV file (SampleSpec) ----
\* np.iinfo(np.int16).max
int16_max == 32767
Bytes == 0..255
\* np.frombuffer(raw_data, dtype=np.int16): two bytes, the low one first,
\* as a signed 16-bit number
frombuffer(b) ==
  LET u == b[1] + 256 * b[2] IN IF u >= 32768 THEN u - 65536 ELSE u
\* samples.astype(np.float32) / np.iinfo(np.int16).max: the quotient, kept
\* as numerator and denominator (float32 holds every np.int16 exactly, and
\* the rounding of the division keeps a quotient beyond 1 beyond 1)
wav_to_np(smp) == [num |-> smp, den |-> int16_max]
\* a quotient with a positive denominator lies in [-1.0, 1.0]
InUnitRange(v) == -v.den <= v.num /\ v.num <= v.den

\* ---- transcripts and rules of _highlight_text (HighlightSpec) ----
\* a string is a sequence of characters
Alphabet == {"a", "A", "b", " "}
Texts == UNION {[1..n -> Alphabet] : n \in 0..MaxText}
\* str.lower
lower_char(c) == IF c = "A" THEN "a" ELSE c
lower(str) == [k \in 1..Len(str) |-> lower_char(str[k])]
\* the rule sets given to _highlight_text: colours in the dictionary's
\* order, each with its list of phrases; a colour name is a string
Item(color, phrases) == [color |-> color, phrases |-> phrases]
ColorsCopies ==
  { <<>>,
    <<Item(<<"r">>, <<(<<"a">>)>>)>>,
    <<Item(<<"r">>, <<(<<"A">>), (<<"b">>)>>)>>,
    <<Item(<<"r">>, <<(<<"a">>)>>), Item(<<"g">>, <<(<<"b">>)>>)>>,
    <<Item(<<"r">>, <<(<<"a", "b">>)>>), Item(<<"g">>, <<(<<"b">>)>>)>>,
    <<Item(<<"r">>, <<(<<"a">>)>>), Item(<<"g">>, <<(<<" ">>)>>)>> }
\* s[a:b] of Python, positions counted from 0
Slice(str, a, b) ==
  LET lo == IF a > Len(str) THEN Len(str) ELSE a
      hi == IF b > Len(str) THEN Len(str) ELSE b
  IN SubSeq(str, lo + 1, hi)
\* utils.insert_string: string[:position] + insert + string[position:]
insert_string(string, insert, position) ==
  Slice(string, 0, position) \o insert \o Slice(string, position, Len(string))
\* re.finditer(re.escape(phrase), string): the occurrences of the phrase
\* from left to right, none overlapping the one before, as (start, end)
RECURSIVE finditer_from(_, _, _)
finditer_from(phrase, string, pos) ==
  IF pos + Len(phrase) > Len(string) THEN <<>>
  ELSE IF Slice(string, pos, pos + Len(phrase)) = phrase
         THEN <<(<<pos, pos + Len(phrase)>>)>>
                \o finditer_from(phrase, string, pos + Len(phrase))
         ELSE finditer_from(phrase, string, pos + 1)
finditer(phrase, string) == finditer_from(phrase, string, 0)
opening_tag(color) == <<"[">> \o color \o <<"]">>
closing_tag(color) == <<"[", "/">> \o color \o <<"]">>
Spaces(n) == [k \in 1..n |-> " "]
\* for start, end in reversed(positions): the closing tag is inserted at
\* end, the opening tag at start, and the match is blanked in search_text
RECURSIVE HighlightPositions(_, _, _, _, _)
HighlightPositions(hl, st, positions, k, color) ==
  IF k = 0 THEN [highlighted_text |-> hl, search_text |-> st]
  ELSE LET start == positions[k][1]
           end == positions[k][2]
           closed == insert_string(hl, closing_tag(color), end)
           opened == insert_string(closed, opening_tag(color), start)
           blanked == Slice(st, 0, start) \o Spaces(end - start)
                        \o Slice(st, end, Len(st))
       IN HighlightPositions(opened, blanked, positions, k - 1, color)
\* reversed(positions) with the colour they are wrapped in
Reversed(positions, color) ==
  [k \in 1..Len(positions) |->
     [start |-> positions[Len(positions) + 1 - k][1],
      end |-> positions[Len(positions) + 1 - k][2],
      color |-> color]]

\* ---- the catalog of models (CatalogSpec) ----
\* the models the repository page can list
ModelNames == <<"tiny", "base">>
\* the dictionary fetch_available_models makes for one file of a model
AssetEntry(file_type, name) ==
  [filename |-> <<"ggml", name, file_type>>, url |-> <<"resolve/main", name, file_type>>,
   size |-> "content-length", sha256 |-> "SHA256", downloaded |-> FALSE]
\* the entry of one model: "bin", and "coreml" on Darwin
ModelData(sys, name) ==
  IF sys = "Darwin"
    THEN [bin |-> AssetEntry("bin", name), coreml |-> AssetEntry("coreml", name)]
    ELSE [bin |-> AssetEntry("bin", name)]
\* a catalog is a dictionary in insertion order: name and model_data
Fetched(sys, n) == [k \in 1..n |-> [name |-> ModelNames[k], data |-> ModelData(sys, ModelNames[k])]]
\* models.json: absent, or a text
NoFile == [exists |-> FALSE, text |-> <<>>]
\* json.dump: the text of a catalog, piece by piece
Token(t) == [tok |-> t, name |-> "", data |-> <<>>]
EntryToken(e) == [tok |-> "entry", name |-> e.name, data |-> e.data]
json_dump(mi) ==
  <<Token("{")>> \o [k \in 1..Len(mi) |-> EntryToken(mi[k])] \o <<Token("}")>>
\* json.loads: the catalog of a complete text; JSONDecodeError otherwise
IsJson(text) ==
  /\ Len(text) >= 2
  /\ text[1].tok = "{"
  /\ text[Len(text)].tok = "}"
  /\ \A k \in 2..(Len(text) - 1) : text[k].tok = "entry"
json_loads(text) ==
  [k \in 1..(Len(text) - 2) |-> [name |-> text[k + 1].name, data |-> text[k + 1].data]]

\* ---- the filesystem the Watcher sees (WatchSpec) ----
\* a path is the sequence of its components; the watched folder and a
\* sub-folder of it
folder == <<"rec">>
subfolder == <<"rec", "sub">>
COLORS_FILE_NAME == "colors.yaml"
\* the configured audio formats
formats == {"wav"}
\* file names: an audio file, a file of another kind, a hidden audio file,
\* the colors file
FileNames == {"a.wav", "a.txt", ".a.wav", COLORS_FILE_NAME}
\* the extension of a file name
Ext(name) ==
  CASE name = "a.wav" -> "wav"
    [] name = ".a.wav" -> "wav"
    [] name = "a.txt" -> "txt"
    [] name = COLORS_FILE_NAME -> "yaml"
\* name.startswith('.')
StartsWithDot(name) == name = ".a.wav"
Paths == {Append(d, n) : d \in {folder, subfolder}, n \in FileNames}
EventTypes == {"created", "moved", "modified", "closed", "deleted"}
NoEvent == [type |-> "none", src_path |-> <<>>, dest_path |-> <<>>]
\* the events of the filesystem: a moved event has a destination
Events ==
  {[type |-> t, src_path |-> p, dest_path |-> <<>>] :
       t \in EventTypes \ {"moved"}, p \in Paths}
  \cup UNION {{[type |-> "moved", src_path |-> p, dest_path |-> d] :
                   d \in Paths \ {p}} : p \in Paths}

VARIABLES
  \* the pipeline queues (TrackedQueue.queue of each)
  decoding_queue, transcribing_queue, output_queue,
  \* FolderWatcher
  observer_alive,      \* observer.start() has run and the process lives
  watcher_running,     \* FolderWatcher.running
  next_file,           \* the next file the filesystem will produce
  \* Decoder
  decoder_pc, decoder_job, decoder_stop_event,
  \* transcriber worker process and its shared_dict
  worker_pc, worker_job, shared_dict, worker_terminated,
  bin_file_exists,     \* bin_file_path.exists() when the worker starts
  \* Output
  output_pc, output_job, output_stop_event,
  csv_exists,          \* os.path.exists(csv_filepath)
  csv_file,            \* the rows of the CSV file
  csv_at_start,        \* history: what the CSV path held at startup
  \* log: the files an error was logged for
  error_log,
  \* supervisor (main thread): SignalScribeApp and main()
  app_pc, app_running, waited, max_wait_time, stop_ctx, exit_code,
  sigint_at,           \* where the supervisor stood when SIGINT came
  \* history
  polls,               \* iterations of the print_parameters loop
  ever_running,        \* the worker status has been RUNNING
  sentinel_seen,       \* the worker has dequeued the sentinel
  sigint_q2,           \* files waiting in Q2 at a steady-state SIGINT with Q3 empty
  stops_ended,         \* calls of SignalScribeApp.stop that have ended
  loader_invoked,      \* the worker has called Model(...)
  raised,              \* the files whose inference raised in the worker
  dequeued,            \* history: the Jobs the worker took from the transcribing queue
  forwarded,           \* history: the Jobs the worker put on the output queue
  \* TrackedQueue (TQSpec)
  tq_queue, tq_size, tq_lock, put_pc, get_pc, n_put, n_got,
  \* FolderWatcherHandler (WatchSpec)
  w_ev,                \* the event the observer is dispatching, or NoEvent
  w_jobs,              \* the paths of the Jobs put on the queue, in order
  w_reloads,           \* calls of _update_colors
  w_events,            \* events the filesystem has produced
  w_last,              \* history: the event handled last
  \* the highlight rules (ColorsSpec)
  colors_file,         \* what colors.yaml holds at the reload under way
  colors,              \* FolderWatcherHandler.colors
  shared_colors,       \* the dictionary the Watcher and Output share
  shared_colors_lock,  \* who holds the lock: "free", "watcher", "output"
  reload_pc,           \* where _update_colors stands
  valid_colors,        \* _update_colors: valid_colors
  hl_pc,               \* where _highlight_text stands
  colors_copy,         \* _highlight_text: colors_copy
  installed,           \* history: the rule sets completely installed
  reloads,             \* calls of _update_colors
  \* ModelManager (ModelSpec)
  mm_pc,               \* where ModelManager stands
  required_files,      \* ModelManager.required_files
  disk,                \* the model directory: what each file holds
  missing_files,       \* ensure_models_exist: missing_files
  mm_i,                \* ensure_models_exist: position in the download loop
  mm_ret,              \* what ensure_models_exist returned
  downloads,           \* history: the assets downloaded, in order
  extracted,           \* history: the assets handed to the extraction
  mismatch,            \* history: the asset whose fresh download had a wrong hash
  \* the catalog file models.json (CatalogSpec)
  cat_pc,              \* where the catalog's fetch, write, read, validation stand
  system,              \* platform.system()
  model_info,          \* the catalog in memory
  catalog_file,        \* models.json on disk
  previous_file,       \* history: models.json when the write under way began
  read_back,           \* what read_model_info_file returned
  accepted,            \* what validate_model_info returned
  writes,              \* calls of write_model_info_file
  \* the Decoder on its own (DecoderSpec)
  dec_in,              \* the decoding queue
  dec_out,             \* the transcribing queue
  dec_pc,              \* where _decode_loop stands
  transcription,       \* _decode_loop: transcription
  stop_event,          \* Decoder.stop_event
  temp_files,          \* the temporary WAV files that exist
  pending,             \* _load_audio: how the try block was left
  dec_log,             \* the jobs of the "Failed to decode" error lines
  offered,             \* jobs put on the decoding queue
  left_at_exit,        \* history: the jobs queued or held when the thread exited
  temps_made,          \* history: the jobs a temporary file was made for
  \* the samples of a WAV file (SampleSpec)
  wav_pc,              \* where wav_to_np stands
  raw_data,            \* the two bytes of the sample being read
  samples,             \* the sample as np.int16
  audio_array,         \* the sample as float32: a quotient
  \* one call of _highlight_text (HighlightSpec)
  ht_pc,               \* where _highlight_text stands
  ht_text,             \* _highlight_text: text
  colors_items,        \* colors_copy.items(), in the dictionary's order
  highlighted_text,    \* _highlight_text: highlighted_text
  search_text,         \* _highlight_text: search_text
  ht_i,                \* position in the loop over the colours
  ht_j,                \* position in the loop over the colour's phrases
  wrapped              \* history: the matches wrapped, in order

queue_vars == <<decoding_queue, transcribing_queue, output_queue>>
watcher_vars == <<observer_alive, watcher_running, next_file>>
decoder_vars == <<decoder_pc, decoder_job, decoder_stop_event>>
worker_vars == <<worker_pc, worker_job, shared_dict, worker_terminated,
                 ever_running, sentinel_seen>>
output_vars == <<output_pc, output_job, output_stop_event, csv_exists,
                 csv_file, csv_at_start>>
app_vars == <<app_pc, app_running, waited, max_wait_time, stop_ctx, exit_code,
              sigint_at, polls, sigint_q2, stops_ended>>

\* what the worker met: its model file, its loader, its inferences
worker_hist == <<bin_file_exists, loader_invoked, raised>>

\* what the worker took and what it passed on
worker_counts == <<dequeued, forwarded>>

pipe_vars == <<queue_vars, watcher_vars, decoder_vars, worker_vars,
               output_vars, error_log, app_vars, worker_hist, worker_counts>>

tq_vars == <<tq_queue, tq_size, tq_lock, put_pc, get_pc, n_put, n_got>>

\* the event handler of the Watcher (WatchSpec)
watch_vars == <<w_ev, w_jobs, w_reloads, w_events, w_last>>

\* the state of the component specifications
\* the highlight rules, their reload and their use (ColorsSpec)
colors_vars == <<colors_file, colors, shared_colors, shared_colors_lock,
                 reload_pc, valid_colors, hl_pc, colors_copy, installed,
                 reloads>>

\* ModelManager and the files of its model directory (ModelSpec)
model_vars == <<mm_pc, required_files, disk, missing_files, mm_i, mm_ret,
                downloads, extracted, mismatch>>

\* the catalog of models and its file (CatalogSpec)
catalog_vars == <<cat_pc, system, model_info, catalog_file, previous_file,
                  read_back, accepted, writes>>

\* the Decoder thread, its queues and its temporary files (DecoderSpec)
dec_vars == <<dec_in, dec_out, dec_pc, transcription, stop_event, temp_files,
              pending, dec_log, offered, left_at_exit, temps_made>>

\* the conversion of one sample (SampleSpec)
sample_vars == <<wav_pc, raw_data, samples, audio_array>>

\* one call of Output._highlight_text (HighlightSpec)
ht_vars == <<ht_pc, ht_text, colors_items, highlighted_text, search_text, ht_i,
             ht_j, wrapped>>

aux_vars == <<watch_vars, colors_vars, model_vars, catalog_vars, dec_vars,
              sample_vars, ht_vars>>

\* what the steps of one component leave alone
not_watch_vars == <<pipe_vars, tq_vars, colors_vars, model_vars, catalog_vars,
    dec_vars, sample_vars, ht_vars>>
not_colors_vars == <<pipe_vars, tq_vars, watch_vars, model_vars, catalog_vars,
    dec_vars, sample_vars, ht_vars>>
not_model_vars == <<pipe_vars, tq_vars, watch_vars, colors_vars, catalog_vars,
    dec_vars, sample_vars, ht_vars>>
not_catalog_vars == <<pipe_vars, tq_vars, watch_vars, colors_vars, model_vars,
    dec_vars, sample_vars, ht_vars>>
not_dec_vars == <<pipe_vars, tq_vars, watch_vars, colors_vars, model_vars,
    catalog_vars, sample_vars, ht_vars>>
not_sample_vars == <<pipe_vars, tq_vars, watch_vars, colors_vars, model_vars,
    catalog_vars, dec_vars, ht_vars>>
not_ht_vars == <<pipe_vars, tq_vars, watch_vars, colors_vars, model_vars,
    catalog_vars, dec_vars, sample_vars>>

vars == <<pipe_vars, tq_vars, aux_vars>>

\* the main process has not exited: its threads can run
ProcessAlive == exit_code = NoExit

\* Process.is_alive() of the worker
WorkerAlive == worker_pc # "exited"

Ids(q) == {q[i].id : i \in 1..Len(q)}

\* ------------------------------------------------------------------------
\* Initial state: the components as their constructors leave them, composed
\* as SignalScribeApp.setup composes them (three unbounded queues; the Decoder
\* and Output threads and the worker process already started; the Watcher
\* constructed, not started), on entry to print_parameters.
\* (setup names Output's path parameter csv_file_path, Output.__init__ names
\* it csv_filepath; Output is taken here as Output.__init__ builds it.)
\* ------------------------------------------------------------------------
Init ==
  /\ decoding_queue = <<>>
  /\ transcribing_queue = <<>>
  /\ output_queue = <<>>
  /\ observer_alive = FALSE
  /\ watcher_running = FALSE
  /\ next_file = 1
  /\ decoder_pc = "wait"
  /\ decoder_job = NoneItem
  /\ decoder_stop_event = FALSE
  /\ worker_pc = "entry"
  /\ worker_job = NoneItem
  /\ shared_dict = [status |-> INITIALISED, error_count |-> 0,
                    system_info |-> "Unknown"]
  /\ worker_terminated = FALSE
  /\ bin_file_exists \in BOOLEAN
  /\ loader_invoked = FALSE
  /\ raised = {}
  /\ dequeued = {}
  /\ forwarded = {}
  /\ output_pc = "wait"
  /\ output_job = NoneItem
  /\ output_stop_event = FALSE
  \* the CSV at startup: absent, present and empty, or left by an earlier run
  /\ \/ csv_at_start = "absent" /\ csv_exists = FALSE /\ csv_file = <<>>
     \/ csv_at_start = "empty" /\ csv_exists = TRUE /\ csv_file = <<>>
     \/ /\ csv_at_start = "rows"
        /\ csv_exists = TRUE
        /\ csv_file = <<Header, OldRow>>
  /\ error_log = {}
  /\ app_pc = "params"
  /\ app_running = FALSE
  /\ waited = 0
  /\ max_wait_time = 0
  /\ stop_ctx = "none"
  /\ exit_code = NoExit
  /\ sigint_at = "none"
  /\ polls = 0
  /\ ever_running = FALSE
  /\ sentinel_seen = FALSE
  /\ sigint_q2 = {}
  /\ stops_ended = 0
  /\ tq_queue = <<>>
  /\ tq_size = 0
  /\ tq_lock = "free"
  /\ put_pc = "idle"
  /\ get_pc = "idle"
  /\ n_put = 0
  /\ n_got = 0
  /\ w_ev = NoEvent
  /\ w_jobs = <<>>
  /\ w_reloads = 0
  /\ w_events = 0
  /\ w_last = NoEvent
  /\ colors_file = NoColorsFile
  /\ colors = {}
  /\ shared_colors = {}
  /\ shared_colors_lock = "free"
  /\ reload_pc = "idle"
  /\ valid_colors = {}
  /\ hl_pc = "idle"
  /\ colors_copy = {}
  /\ installed = {{}}
  /\ reloads = 0
  /\ mm_pc = "new"
  /\ required_files = <<>>
  /\ disk = EmptyDir
  /\ missing_files = <<>>
  /\ mm_i = 0
  /\ mm_ret = "none"
  /\ downloads = <<>>
  /\ extracted = {}
  /\ mismatch = "none"
  /\ cat_pc = "start"
  /\ system = "Linux"
  /\ model_info = <<>>
  /\ catalog_file = NoFile
  /\ previous_file = NoFile
  /\ read_back = <<>>
  /\ accepted = "none"
  /\ writes = 0
  /\ dec_in = <<>>
  /\ dec_out = <<>>
  /\ dec_pc = "wait"
  /\ transcription = NoJob
  /\ stop_event = FALSE
  /\ temp_files = {}
  /\ pending = "none"
  /\ dec_log = {}
  /\ offered = 0
  /\ left_at_exit = {}
  /\ temps_made = {}
  /\ wav_pc = "read"
  /\ raw_data = <<0, 0>>
  /\ samples = 0
  /\ audio_array = [num |-> 0, den |-> int16_max]
  /\ ht_pc = "call"
  /\ ht_text = <<>>
  /\ colors_items = <<>>
  /\ highlighted_text = <<>>
  /\ search_text = <<>>
  /\ ht_i = 0
  /\ ht_j = 0
  /\ wrapped = <<>>

\* ------------------------------------------------------------------------
\* FolderWatcherHandler
\* ------------------------------------------------------------------------
\* on_created for a visible audio file: queue.put(Transcription(filepath))
on_created ==
  /\ ProcessAlive
  /\ observer_alive
  /\ next_file <= MaxFiles
  /\ decoding_queue' = Append(decoding_queue, Transcription(next_file))
  /\ next_file' = next_file + 1
  /\ UNCHANGED <<transcribing_queue, output_queue, observer_alive,
                 watcher_running, decoder_vars, worker_vars, output_vars,
                 error_log, app_vars, tq_vars, aux_vars, worker_counts,
                 worker_hist>>

\* ------------------------------------------------------------------------
\* Decoder._decode_loop
\* ------------------------------------------------------------------------
\* mutant: the head of the decoding queue is read and left in the queue
DecoderGet_peek ==
  /\ ProcessAlive
  /\ decoder_pc = "wait"
  /\ IF decoder_stop_event
       THEN /\ decoder_pc' = "exited"
            /\ UNCHANGED <<decoding_queue, decoder_job>>
       ELSE /\ decoding_queue # <<>>
            /\ decoder_job' = Head(decoding_queue)
            /\ decoding_queue' = decoding_queue
            /\ decoder_pc' = "got"
  /\ UNCHANGED <<transcribing_queue, output_queue, decoder_stop_event,
                 watcher_vars, worker_vars, output_vars, error_log, app_vars,
                 tq_vars, aux_vars, worker_counts,
                 worker_hist>>

\* while not stop_event.is_set(): transcription = decoding_queue.get(timeout=0.5)
\* (an empty queue raises Empty and the loop goes round: no change of state)
DecoderGet ==
  /\ ProcessAlive
  /\ decoder_pc = "wait"
  /\ IF decoder_stop_event
       THEN /\ decoder_pc' = "exited"
            /\ UNCHANGED <<decoding_queue, decoder_job>>
       ELSE /\ decoding_queue # <<>>
            /\ decoder_job' = Head(decoding_queue)
            /\ decoding_queue' = Tail(decoding_queue)
            /\ decoder_pc' = "got"
  /\ UNCHANGED <<transcribing_queue, output_queue, decoder_stop_event,
                 watcher_vars, worker_vars, output_vars, error_log, app_vars,
                 tq_vars, aux_vars, worker_counts,
                 worker_hist>>

\* if not stop_event.is_set(): audio_data = self._load_audio(filepath);
\* transcription.audio = audio_data; an exception is logged as an error
DecoderLoad ==
  /\ ProcessAlive
  /\ decoder_pc = "got"
  /\ IF decoder_stop_event
       THEN /\ decoder_pc' = "wait"
            /\ decoder_job' = NoneItem
            /\ UNCHANGED error_log
       ELSE \/ /\ decoder_job' = [decoder_job EXCEPT !.audio = TRUE]
               /\ decoder_pc' = "decoded"
               /\ UNCHANGED error_log
            \/ /\ error_log' = error_log \cup {decoder_job.id}
               /\ decoder_job' = NoneItem
               /\ decoder_pc' = "wait"
  /\ UNCHANGED <<queue_vars, decoder_stop_event, watcher_vars, worker_vars,
                 output_vars, app_vars, tq_vars, aux_vars, worker_counts,
                 worker_hist>>

\* if not stop_event.is_set(): transcribing_queue.put(transcription)
DecoderPut ==
  /\ ProcessAlive
  /\ decoder_pc = "decoded"
  /\ IF decoder_stop_event
       THEN UNCHANGED transcribing_queue
       ELSE transcribing_queue' = Append(transcribing_queue, decoder_job)
  /\ decoder_job' = NoneItem
  /\ decoder_pc' = "wait"
  /\ UNCHANGED <<decoding_queue, output_queue, decoder_stop_event,
                 watcher_vars, worker_vars, output_vars, error_log, app_vars,
                 tq_vars, aux_vars, worker_counts,
                 worker_hist>>

\* ------------------------------------------------------------------------
\* The transcriber worker process: transcriber_entry, transcriber_main
\* ------------------------------------------------------------------------
SetStatus(st) == [shared_dict EXCEPT !.status = st]

\* transcriber_entry: shared_dict["status"] = LOADING
WorkerEntry ==
  /\ worker_pc = "entry"
  /\ shared_dict' = SetStatus(LOADING)
  /\ worker_pc' = "preflight"
  /\ UNCHANGED <<queue_vars, watcher_vars, decoder_vars, worker_job,
                 worker_terminated, ever_running, sentinel_seen, output_vars,
                 error_log, app_vars, tq_vars, aux_vars, worker_counts,
                 worker_hist>>

\* mutant: the model file is not looked for
WorkerPreflight_no_check ==
  /\ worker_pc = "preflight"
  /\ worker_pc' = "load"
  /\ UNCHANGED shared_dict
  /\ UNCHANGED <<queue_vars, watcher_vars, decoder_vars, worker_job,
                 worker_terminated, ever_running, sentinel_seen, output_vars,
                 error_log, app_vars, tq_vars, aux_vars, worker_counts,
                 worker_hist>>

\* mutant: the missing model file is reported and the worker goes on
WorkerPreflight_no_return ==
  /\ worker_pc = "preflight"
  /\ IF bin_file_exists
       THEN /\ worker_pc' = "load"
            /\ UNCHANGED shared_dict
       ELSE /\ shared_dict' = SetStatus(ERROR)
            /\ worker_pc' = "load"
  /\ UNCHANGED <<queue_vars, watcher_vars, decoder_vars, worker_job,
                 worker_terminated, ever_running, sentinel_seen, output_vars,
                 error_log, app_vars, tq_vars, aux_vars, worker_counts,
                 worker_hist>>

\* transcriber_main: if not bin_file_path.exists(): status = ERROR; return
WorkerPreflight ==
  /\ worker_pc = "preflight"
  /\ IF bin_file_exists
       THEN /\ worker_pc' = "load"
            /\ UNCHANGED shared_dict
       ELSE /\ shared_dict' = SetStatus(ERROR)
            /\ worker_pc' = "final"
  /\ UNCHANGED <<queue_vars, watcher_vars, decoder_vars, worker_job,
                 worker_terminated, ever_running, sentinel_seen, output_vars,
                 error_log, app_vars, tq_vars, aux_vars, worker_counts,
                 worker_hist>>

\* model = Model(...); system_info = model.system_info(): either returns, or
\* raises into transcriber_entry's except: status = ERROR
WorkerLoad ==
  /\ worker_pc = "load"
  /\ loader_invoked' = TRUE
  /\ \/ /\ worker_pc' = "system_info"
        /\ UNCHANGED shared_dict
     \/ /\ shared_dict' = SetStatus(ERROR)
        /\ worker_pc' = "final"
  /\ UNCHANGED <<queue_vars, watcher_vars, decoder_vars, worker_job,
                 worker_terminated, ever_running, sentinel_seen, output_vars,
                 error_log, app_vars, tq_vars, aux_vars, worker_counts, bin_file_exists, raised>>

\* mutant: the worker goes on without storing its system information
WorkerSystemInfo_not_written ==
  /\ worker_pc = "system_info"
  /\ shared_dict' = shared_dict
  /\ worker_pc' = "set_running"
  /\ UNCHANGED <<queue_vars, watcher_vars, decoder_vars, worker_job,
                 worker_terminated, ever_running, sentinel_seen, output_vars,
                 error_log, app_vars, tq_vars, aux_vars, worker_counts,
                 worker_hist>>

\* shared_dict["system_info"] = ", ".join(enabled_features), or "<unknown>"
WorkerSystemInfo ==
  /\ worker_pc = "system_info"
  /\ \E info \in {"features", "<unknown>"} :
        shared_dict' = [shared_dict EXCEPT !.system_info = info]
  /\ worker_pc' = "set_running"
  /\ UNCHANGED <<queue_vars, watcher_vars, decoder_vars, worker_job,
                 worker_terminated, ever_running, sentinel_seen, output_vars,
                 error_log, app_vars, tq_vars, aux_vars, worker_counts,
                 worker_hist>>

\* shared_dict["status"] = RUNNING
WorkerSetRunning ==
  /\ worker_pc = "set_running"
  /\ shared_dict' = SetStatus(RUNNING)
  /\ ever_running' = TRUE
  /\ worker_pc' = "loop"
  /\ UNCHANGED <<queue_vars, watcher_vars, decoder_vars, worker_job,
                 worker_terminated, sentinel_seen, output_vars,
                 error_log, app_vars, tq_vars, aux_vars, worker_counts,
                 worker_hist>>

\* mutant: the sentinel is dequeued and the loop goes on
WorkerGet_no_break ==
  /\ worker_pc = "loop"
  /\ transcribing_queue # <<>>
  /\ transcribing_queue' = Tail(transcribing_queue)
  /\ IF Head(transcribing_queue) = NoneItem
       THEN /\ worker_pc' = "loop"
            /\ sentinel_seen' = TRUE
            /\ UNCHANGED <<worker_job, dequeued>>
       ELSE /\ worker_pc' = "transcribe"
            /\ worker_job' = Head(transcribing_queue)
            /\ dequeued' = dequeued \cup {Head(transcribing_queue).id}
            /\ UNCHANGED sentinel_seen
  /\ UNCHANGED <<decoding_queue, output_queue, watcher_vars, decoder_vars,
                 shared_dict, worker_terminated, ever_running, output_vars,
                 error_log, app_vars, tq_vars, aux_vars, forwarded,
                 worker_hist>>

\* transcription = transcribing_queue.get(timeout=0.5);
\* if transcription is None: break
WorkerGet ==
  /\ worker_pc = "loop"
  /\ transcribing_queue # <<>>
  /\ transcribing_queue' = Tail(transcribing_queue)
  /\ IF Head(transcribing_queue) = NoneItem
       THEN /\ worker_pc' = "final"
            /\ sentinel_seen' = TRUE
            /\ UNCHANGED <<worker_job, dequeued>>
       ELSE /\ worker_pc' = "transcribe"
            /\ worker_job' = Head(transcribing_queue)
            /\ dequeued' = dequeued \cup {Head(transcribing_queue).id}
            /\ UNCHANGED sentinel_seen
  /\ UNCHANGED <<decoding_queue, output_queue, watcher_vars, decoder_vars,
                 shared_dict, worker_terminated, ever_running, output_vars,
                 error_log, app_vars, tq_vars, aux_vars, forwarded,
                 worker_hist>>

\* mutant: the text of the segments is not stored
transcribe_audio_no_text(t) == t

\* transcribe_audio: sets text and duration, leaves audio as it is
transcribe_audio(t) == [t EXCEPT !.text = TRUE]

\* mutant: an exception of the inference ends the worker loop
WorkerTranscribe_fatal ==
  /\ worker_pc = "transcribe"
  /\ \/ /\ output_queue' = Append(output_queue, transcribe_audio(worker_job))
        /\ forwarded' = forwarded \cup {worker_job.id}
        /\ worker_pc' = "loop"
        /\ UNCHANGED <<shared_dict, error_log, raised>>
     \/ /\ raised' = raised \cup {worker_job.id}
        /\ shared_dict' = [shared_dict EXCEPT !.error_count = @ + 1]
        /\ error_log' = error_log \cup {worker_job.id}
        /\ worker_pc' = "final"
        /\ UNCHANGED <<output_queue, forwarded>>
  /\ worker_job' = NoneItem
  /\ UNCHANGED <<decoding_queue, transcribing_queue, watcher_vars,
                 decoder_vars, worker_terminated, ever_running, sentinel_seen,
                 output_vars, app_vars, tq_vars, aux_vars, dequeued, bin_file_exists,
                 loader_invoked>>

\* mutant: the failure of a Job is logged and not counted
WorkerTranscribe_uncounted ==
  /\ worker_pc = "transcribe"
  /\ \/ /\ output_queue' = Append(output_queue, transcribe_audio(worker_job))
        /\ forwarded' = forwarded \cup {worker_job.id}
        /\ UNCHANGED <<shared_dict, error_log, raised>>
     \/ /\ raised' = raised \cup {worker_job.id}
        /\ shared_dict' = shared_dict
        /\ error_log' = error_log \cup {worker_job.id}
        /\ UNCHANGED <<output_queue, forwarded>>
  /\ worker_job' = NoneItem
  /\ worker_pc' = "loop"
  /\ UNCHANGED <<decoding_queue, transcribing_queue, watcher_vars,
                 decoder_vars, worker_terminated, ever_running, sentinel_seen,
                 output_vars, app_vars, tq_vars, aux_vars, dequeued, bin_file_exists,
                 loader_invoked>>

\* transcription = transcribe_audio(transcription, model);
\* output_queue.put(transcription); an exception: error_count += 1, logged
WorkerTranscribe ==
  /\ worker_pc = "transcribe"
  /\ \/ /\ output_queue' = Append(output_queue, transcribe_audio(worker_job))
        /\ forwarded' = forwarded \cup {worker_job.id}
        /\ UNCHANGED <<shared_dict, error_log, raised>>
     \/ /\ raised' = raised \cup {worker_job.id}
        /\ shared_dict' = [shared_dict EXCEPT !.error_count = @ + 1]
        /\ error_log' = error_log \cup {worker_job.id}
        /\ UNCHANGED <<output_queue, forwarded>>
  /\ worker_job' = NoneItem
  /\ worker_pc' = "loop"
  /\ UNCHANGED <<decoding_queue, transcribing_queue, watcher_vars,
                 decoder_vars, worker_terminated, ever_running, sentinel_seen,
                 output_vars, app_vars, tq_vars, aux_vars, dequeued, bin_file_exists,
                 loader_invoked>>

\* transcriber_entry, last statement: shared_dict["status"] = SHUTDOWN
WorkerFinal ==
  /\ worker_pc = "final"
  /\ shared_dict' = SetStatus(SHUTDOWN)
  /\ worker_pc' = "exited"
  /\ UNCHANGED <<queue_vars, watcher_vars, decoder_vars, worker_job,
                 worker_terminated, ever_running, sentinel_seen, output_vars,
                 error_log, app_vars, tq_vars, aux_vars, worker_counts,
                 worker_hist>>

\* ------------------------------------------------------------------------
\* Output._output_loop
\* ------------------------------------------------------------------------
\* mutant: the newest item of the output queue is taken
OutputGet_newest ==
  /\ ProcessAlive
  /\ output_pc = "wait"
  /\ IF output_stop_event
       THEN /\ output_pc' = "exited"
            /\ UNCHANGED <<output_queue, output_job>>
       ELSE /\ output_queue # <<>>
            /\ output_job' = output_queue[Len(output_queue)]
            /\ output_queue' = SubSeq(output_queue, 1, Len(output_queue) - 1)
            /\ output_pc' = "got"
  /\ UNCHANGED <<decoding_queue, transcribing_queue, output_stop_event,
                 csv_exists, csv_file, csv_at_start, watcher_vars,
                 decoder_vars, worker_vars, error_log, app_vars, tq_vars, aux_vars, worker_counts,
                 worker_hist>>

\* while not stop_event.is_set(): transcription = output_queue.get(timeout=1)
OutputGet ==
  /\ ProcessAlive
  /\ output_pc = "wait"
  /\ IF output_stop_event
       THEN /\ output_pc' = "exited"
            /\ UNCHANGED <<output_queue, output_job>>
       ELSE /\ output_queue # <<>>
            /\ output_job' = Head(output_queue)
            /\ output_queue' = Tail(output_queue)
            /\ output_pc' = "got"
  /\ UNCHANGED <<decoding_queue, transcribing_queue, output_stop_event,
                 csv_exists, csv_file, csv_at_start, watcher_vars,
                 decoder_vars, worker_vars, error_log, app_vars, tq_vars, aux_vars, worker_counts,
                 worker_hist>>

\* mutant: the file is opened for writing anew at every row
OutputWrite_truncate ==
  /\ ProcessAlive
  /\ output_pc = "got"
  /\ \/ /\ csv_file' = <<Header, output_job.id>>
        /\ csv_exists' = TRUE
        /\ UNCHANGED error_log
     \/ /\ error_log' = error_log \cup {output_job.id}
        /\ UNCHANGED <<csv_exists, csv_file>>
  /\ output_job' = NoneItem
  /\ output_pc' = "wait"
  /\ UNCHANGED <<queue_vars, output_stop_event, csv_at_start, watcher_vars, decoder_vars,
                 worker_vars, app_vars, tq_vars, aux_vars, worker_counts,
                 worker_hist>>

\* the header when the file does not exist, then the row; an exception is
\* logged ("Error in output thread")
OutputWrite ==
  /\ ProcessAlive
  /\ output_pc = "got"
  /\ \/ /\ csv_file' = IF csv_exists
                         THEN Append(csv_file, output_job.id)
                         ELSE <<Header, output_job.id>>
        /\ csv_exists' = TRUE
        /\ UNCHANGED error_log
     \/ /\ error_log' = error_log \cup {output_job.id}
        /\ UNCHANGED <<csv_exists, csv_file>>
  /\ output_job' = NoneItem
  /\ output_pc' = "wait"
  /\ UNCHANGED <<queue_vars, output_stop_event, csv_at_start, watcher_vars, decoder_vars,
                 worker_vars, app_vars, tq_vars, aux_vars, worker_counts,
                 worker_hist>>

\* ------------------------------------------------------------------------
\* The supervisor: SignalScribeApp (print_parameters, run, stop, _cleanup),
\* Transcriber.stop, FolderWatcher.run/stop and main()
\* ------------------------------------------------------------------------
\* mutant: the loop is left as soon as the worker is no longer loading
PrintParametersPoll_break_on_any ==
  /\ ProcessAlive
  /\ app_pc = "params"
  /\ waited < max_wait
  /\ shared_dict.status \in {RUNNING, ERROR, SHUTDOWN} \/ polls < MaxPolls
  /\ IF shared_dict.status \in {RUNNING, ERROR, SHUTDOWN}
       THEN /\ app_pc' = "params_done"
            /\ polls' = 0
       ELSE /\ polls' = polls + 1
            /\ UNCHANGED app_pc
  /\ UNCHANGED <<queue_vars, watcher_vars, decoder_vars, worker_vars,
                 output_vars, error_log, app_running, waited, max_wait_time,
                 stop_ctx, exit_code, sigint_at, sigint_q2, stops_ended,
                 tq_vars, aux_vars, worker_counts,
                 worker_hist>>

\* print_parameters, one iteration of "while waited < max_wait": read the
\* status; RUNNING: break; ERROR or SHUTDOWN: raise, which main() answers with
\* abort() -> shutdown() -> app.stop(); anything else: go round (the sleep and
\* "waited += wait_interval" stand after the loop)
PrintParametersPoll ==
  /\ ProcessAlive
  /\ app_pc = "params"
  /\ waited < max_wait
  /\ shared_dict.status \in {RUNNING, ERROR, SHUTDOWN} \/ polls < MaxPolls
  /\ IF shared_dict.status = RUNNING
       THEN /\ app_pc' = "params_done"
            /\ polls' = 0
            /\ UNCHANGED stop_ctx
       ELSE IF shared_dict.status \in {ERROR, SHUTDOWN}
       THEN /\ app_pc' = "stop"
            /\ stop_ctx' = "abort"
            /\ polls' = 0
       ELSE /\ polls' = polls + 1
            /\ UNCHANGED <<app_pc, stop_ctx>>
  /\ UNCHANGED <<queue_vars, watcher_vars, decoder_vars, worker_vars,
                 output_vars, error_log, app_running, waited, max_wait_time,
                 exit_code, sigint_at, sigint_q2, stops_ended, tq_vars, aux_vars, worker_counts,
                 worker_hist>>

\* print_parameters after the loop: sleep(wait_interval);
\* waited += wait_interval; the table is printed and setup() returns
PrintParametersDone ==
  /\ ProcessAlive
  /\ app_pc = "params_done"
  /\ waited' = waited + wait_interval
  /\ app_pc' = "run"
  /\ UNCHANGED <<queue_vars, watcher_vars, decoder_vars, worker_vars,
                 output_vars, error_log, app_running, max_wait_time, stop_ctx,
                 exit_code, sigint_at, polls, sigint_q2, stops_ended,
                 tq_vars, aux_vars, worker_counts,
                 worker_hist>>

\* SignalScribeApp.run: self.running = True; self.watcher.run(), which
\* schedules the handler, starts the observer and, FolderWatcher.running being
\* False, returns at once; then _status_loop, which only reads the queue sizes
AppRun ==
  /\ ProcessAlive
  /\ app_pc = "run"
  /\ app_running' = TRUE
  /\ observer_alive' = TRUE
  /\ app_pc' = "status_loop"
  /\ UNCHANGED <<queue_vars, watcher_running, next_file, decoder_vars,
                 worker_vars, output_vars, error_log, waited, max_wait_time,
                 stop_ctx, exit_code, sigint_at, polls, sigint_q2,
                 stops_ended, tq_vars, aux_vars, worker_counts,
                 worker_hist>>

\* SIGINT to the main process: sigint_shutdown -> shutdown(0) -> app.stop()
Sigint ==
  /\ ProcessAlive
  /\ sigint_at = "none"
  /\ app_pc \in {"params", "params_done", "run", "status_loop"}
  /\ sigint_at' = app_pc
  /\ stop_ctx' = "sigint"
  /\ sigint_q2' = IF app_pc = "status_loop" /\ output_queue = <<>>
                    THEN Ids(transcribing_queue) ELSE {}
  /\ polls' = 0
  /\ app_pc' = "stop"
  /\ UNCHANGED <<queue_vars, watcher_vars, decoder_vars, worker_vars,
                 output_vars, error_log, app_running, waited, max_wait_time,
                 exit_code, stops_ended, tq_vars, aux_vars, worker_counts,
                 worker_hist>>

\* SignalScribeApp.stop: self.running = False; _cleanup: Transcriber.stop:
\* self.transcribing_queue.put(None); max_wait_time = 10.0
TranscriberStop ==
  /\ ProcessAlive
  /\ app_pc = "stop"
  /\ app_running' = FALSE
  /\ transcribing_queue' = Append(transcribing_queue, NoneItem)
  /\ max_wait_time' = StopPolls
  /\ app_pc' = "stop_wait"
  /\ UNCHANGED <<decoding_queue, output_queue, watcher_vars, decoder_vars,
                 worker_vars, output_vars, error_log, waited, stop_ctx,
                 exit_code, sigint_at, polls, sigint_q2, stops_ended,
                 tq_vars, aux_vars, worker_counts,
                 worker_hist>>

\* Transcriber.stop: while self.worker_process.is_alive():
TranscriberStopCheck ==
  /\ ProcessAlive
  /\ app_pc = "stop_wait"
  /\ app_pc' = IF WorkerAlive THEN "stop_sleep" ELSE "watcher_stop"
  /\ UNCHANGED <<queue_vars, watcher_vars, decoder_vars, worker_vars,
                 output_vars, error_log, app_running, waited, max_wait_time,
                 stop_ctx, exit_code, sigint_at, polls, sigint_q2,
                 stops_ended, tq_vars, aux_vars, worker_counts,
                 worker_hist>>

\* Process.terminate(): the worker dies where it stands, its status unwritten
Terminate ==
  IF WorkerAlive
    THEN /\ worker_pc' = "exited"
         /\ worker_job' = NoneItem
         /\ worker_terminated' = TRUE
    ELSE UNCHANGED <<worker_pc, worker_job, worker_terminated>>

\* mutant: at the deadline the loop is left and the worker is not terminated
TranscriberStopSleep_no_terminate ==
  /\ ProcessAlive
  /\ app_pc = "stop_sleep"
  /\ max_wait_time' = max_wait_time - 1
  /\ app_pc' = IF max_wait_time' <= 0 THEN "watcher_stop" ELSE "stop_wait"
  /\ UNCHANGED <<queue_vars, watcher_vars, decoder_vars, worker_vars,
                 output_vars, error_log, app_running, waited, stop_ctx,
                 exit_code, sigint_at, polls, sigint_q2, stops_ended,
                 tq_vars, aux_vars, worker_counts,
                 worker_hist>>

\* the loop body: time.sleep(0.1); max_wait_time -= 0.1;
\* if max_wait_time <= 0: self.worker_process.terminate(); break
TranscriberStopSleep ==
  /\ ProcessAlive
  /\ app_pc = "stop_sleep"
  /\ max_wait_time' = max_wait_time - 1
  /\ IF max_wait_time' <= 0
       THEN /\ Terminate
            /\ app_pc' = "watcher_stop"
       ELSE /\ app_pc' = "stop_wait"
            /\ UNCHANGED <<worker_pc, worker_job, worker_terminated>>
  /\ UNCHANGED <<queue_vars, watcher_vars, decoder_vars, shared_dict,
                 ever_running, sentinel_seen, output_vars, error_log,
                 app_running, waited, stop_ctx, exit_code, sigint_at, polls,
                 sigint_q2, stops_ended, tq_vars, aux_vars, worker_counts,
                 worker_hist>>

\* _cleanup: self.watcher.stop(): "if not self.running: return"; otherwise
\* running = False, observer.stop(), observer.join()
WatcherStop ==
  /\ ProcessAlive
  /\ app_pc = "watcher_stop"
  /\ IF ~watcher_running
       THEN UNCHANGED <<watcher_running, observer_alive>>
       ELSE /\ watcher_running' = FALSE
            /\ observer_alive' = FALSE
  /\ app_pc' = "decoder_stop"
  /\ UNCHANGED <<queue_vars, next_file, decoder_vars, worker_vars,
                 output_vars, error_log, app_running, waited, max_wait_time,
                 stop_ctx, exit_code, sigint_at, polls, sigint_q2,
                 stops_ended, tq_vars, aux_vars, worker_counts,
                 worker_hist>>

\* _cleanup: self.decoder.stop(): Decoder has no method stop (its method is
\* shutdown), so AttributeError is raised; stop() logs it and raises it again.
\* Raised in the SIGINT handler it reaches main()'s "except Exception", whose
\* abort() calls shutdown() and so app.stop() once more; raised there it ends
\* the process through the uncaught-exception path, exit status 1.
\* sys.exit(exitcode) after app.stop() is not reached.
CleanupDecoderStop ==
  /\ ProcessAlive
  /\ app_pc = "decoder_stop"
  /\ stops_ended' = stops_ended + 1
  /\ IF stop_ctx = "sigint"
       THEN /\ stop_ctx' = "abort"
            /\ app_pc' = "stop"
            /\ UNCHANGED exit_code
       ELSE /\ exit_code' = EXIT_ERROR
            /\ app_pc' = "exited"
            /\ UNCHANGED stop_ctx
  /\ UNCHANGED <<queue_vars, watcher_vars, decoder_vars, worker_vars,
                 output_vars, error_log, app_running, waited, max_wait_time,
                 sigint_at, polls, sigint_q2, tq_vars, aux_vars, worker_counts,
                 worker_hist>>

\* ------------------------------------------------------------------------
\* The pipeline's specification
\* ------------------------------------------------------------------------
Watcher == on_created
Decoder == DecoderGet \/ DecoderLoad \/ DecoderPut
Worker == \/ WorkerEntry \/ WorkerPreflight \/ WorkerLoad \/ WorkerSystemInfo
          \/ WorkerSetRunning \/ WorkerGet \/ WorkerTranscribe \/ WorkerFinal
Output == OutputGet \/ OutputWrite
Supervisor == \/ PrintParametersPoll \/ PrintParametersDone \/ AppRun
              \/ TranscriberStop \/ TranscriberStopCheck
              \/ TranscriberStopSleep \/ WatcherStop \/ CleanupDecoderStop

Next == Watcher \/ Decoder \/ Worker \/ Output \/ Supervisor \/ Sigint

Spec == Init /\ [][Next]_vars

\* ------------------------------------------------------------------------
\* TrackedQueue: one producer calling put, one consumer calling get
\* ------------------------------------------------------------------------
\* put: self.queue.put(item, ...)
PutQueue ==
  /\ put_pc = "idle"
  /\ n_put < MaxPuts
  /\ tq_queue' = Append(tq_queue, n_put + 1)
  /\ n_put' = n_put + 1
  /\ put_pc' = "lock"
  /\ UNCHANGED <<tq_size, tq_lock, get_pc, n_got, pipe_vars, aux_vars>>

\* put: with self._mp_lock:
PutLock ==
  /\ put_pc = "lock"
  /\ tq_lock = "free"
  /\ tq_lock' = "put"
  /\ put_pc' = "locked"
  /\ UNCHANGED <<tq_queue, tq_size, get_pc, n_put, n_got, pipe_vars, aux_vars>>

\* put: self._size.value += 1, and the lock is released
PutIncrement ==
  /\ put_pc = "locked"
  /\ tq_size' = tq_size + 1
  /\ tq_lock' = "free"
  /\ put_pc' = "idle"
  /\ UNCHANGED <<tq_queue, get_pc, n_put, n_got, pipe_vars, aux_vars>>

\* get: item = self.queue.get(...); on an empty queue Empty is raised and
\* nothing changes
GetQueue ==
  /\ get_pc = "idle"
  /\ tq_queue # <<>>
  /\ tq_queue' = Tail(tq_queue)
  /\ n_got' = n_got + 1
  /\ get_pc' = "lock"
  /\ UNCHANGED <<tq_size, tq_lock, put_pc, n_put, pipe_vars, aux_vars>>

\* get: with self._mp_lock:
GetLock ==
  /\ get_pc = "lock"
  /\ tq_lock = "free"
  /\ tq_lock' = "get"
  /\ get_pc' = "locked"
  /\ UNCHANGED <<tq_queue, tq_size, put_pc, n_put, n_got, pipe_vars, aux_vars>>

\* a get that decrements whatever the counter holds
GetDecrement_unguarded ==
  /\ get_pc = "locked"
  /\ tq_size' = tq_size - 1
  /\ tq_lock' = "free"
  /\ get_pc' = "idle"
  /\ UNCHANGED <<tq_queue, put_pc, n_put, n_got, pipe_vars, aux_vars>>

\* get: if self._size.value > 0: self._size.value -= 1, and the lock is
\* released
GetDecrement ==
  /\ get_pc = "locked"
  /\ tq_size' = IF tq_size > 0 THEN tq_size - 1 ELSE tq_size
  /\ tq_lock' = "free"
  /\ get_pc' = "idle"
  /\ UNCHANGED <<tq_queue, put_pc, n_put, n_got, pipe_vars, aux_vars>>

\* size(): with self._mp_lock: return self._size.value
size == tq_size

TQNext == \/ PutQueue \/ PutLock \/ PutIncrement
          \/ GetQueue \/ GetLock \/ GetDecrement

TQSpec == Init /\ [][TQNext]_vars

\* ------------------------------------------------------------------------
\* FolderWatcherHandler: the events of the filesystem and their handlers
\* ------------------------------------------------------------------------
\* os.path.basename
basename(path) == path[Len(path)]

\* _is_hidden, on a Unix-like system: the name starts with a dot
is_hidden(path) == StartsWithDot(basename(path))

\* os.path.commonpath of two paths: their longest common leading part
\* (of a path alone, commonpath(p, p), the path itself)
commonpath(a, b) ==
  LET n == IF Len(a) < Len(b) THEN Len(a) ELSE Len(b)
      k == CHOOSE i \in 0..n :
             /\ SubSeq(a, 1, i) = SubSeq(b, 1, i)
             /\ \A j \in (i + 1)..n : SubSeq(a, 1, j) # SubSeq(b, 1, j)
  IN  SubSeq(a, 1, k)

\* the patterns given to PatternMatchingEventHandler: "*." + fmt for every
\* format, and COLORS_FILE_NAME
MatchesPatterns(path) ==
  \/ Ext(basename(path)) \in formats
  \/ basename(path) = COLORS_FILE_NAME

\* PatternMatchingEventHandler.dispatch: an event reaches its handler when
\* one of its paths matches a pattern
Dispatched(e) ==
  \/ MatchesPatterns(e.src_path)
  \/ e.type = "moved" /\ MatchesPatterns(e.dest_path)

\* the filesystem produces an event and the observer dispatches it
Dispatch ==
  /\ w_ev = NoEvent
  /\ w_events < MaxEvents
  /\ w_events' = w_events + 1
  /\ \E e \in Events : w_ev' = IF Dispatched(e) THEN e ELSE NoEvent
  /\ UNCHANGED <<w_jobs, w_reloads, w_last, not_watch_vars>>

\* mutant: a hidden path is treated like any other
OnCreated_hidden_too ==
  /\ w_ev.type = "created"
  /\ IF basename(w_ev.src_path) = COLORS_FILE_NAME
       THEN /\ w_reloads' = w_reloads + 1
            /\ UNCHANGED w_jobs
       ELSE /\ w_jobs' = Append(w_jobs, w_ev.src_path)
            /\ UNCHANGED w_reloads
  /\ w_last' = w_ev
  /\ w_ev' = NoEvent
  /\ UNCHANGED <<w_events, not_watch_vars>>

\* on_created: a hidden path is ignored; the colors file is reloaded; any
\* other path becomes a Job
OnCreated ==
  /\ w_ev.type = "created"
  /\ IF is_hidden(w_ev.src_path)
       THEN UNCHANGED <<w_jobs, w_reloads>>
       ELSE IF basename(w_ev.src_path) = COLORS_FILE_NAME
              THEN /\ w_reloads' = w_reloads + 1
                   /\ UNCHANGED w_jobs
              ELSE /\ w_jobs' = Append(w_jobs, w_ev.src_path)
                   /\ UNCHANGED w_reloads
  /\ w_last' = w_ev
  /\ w_ev' = NoEvent
  /\ UNCHANGED <<w_events, not_watch_vars>>

\* on_moved, the condition of "Ignoring move between parent-child
\* directories": a or b and c and d, as Python reads it
IgnoredMove(src_path, dest_path) ==
  \/ commonpath(src_path, src_path) = commonpath(src_path, dest_path)
  \/ /\ commonpath(dest_path, dest_path) = commonpath(src_path, dest_path)
     /\ ~is_hidden(src_path)
     /\ ~is_hidden(dest_path)

\* on_moved: a hidden destination is ignored, an ignored move is ignored,
\* any other destination becomes a Job
on_moved ==
  /\ w_ev.type = "moved"
  /\ IF is_hidden(w_ev.dest_path) \/ IgnoredMove(w_ev.src_path, w_ev.dest_path)
       THEN UNCHANGED w_jobs
       ELSE w_jobs' = Append(w_jobs, w_ev.dest_path)
  /\ w_last' = w_ev
  /\ w_ev' = NoEvent
  /\ UNCHANGED <<w_reloads, w_events, not_watch_vars>>

\* on_modified: the colors file, unless hidden, is reloaded
on_modified ==
  /\ w_ev.type = "modified"
  /\ w_reloads' = IF /\ ~is_hidden(w_ev.src_path)
                     /\ basename(w_ev.src_path) = COLORS_FILE_NAME
                    THEN w_reloads + 1 ELSE w_reloads
  /\ w_last' = w_ev
  /\ w_ev' = NoEvent
  /\ UNCHANGED <<w_jobs, w_events, not_watch_vars>>

\* on_closed: the colors file, unless hidden, is reloaded
on_closed ==
  /\ w_ev.type = "closed"
  /\ w_reloads' = IF /\ ~is_hidden(w_ev.src_path)
                     /\ basename(w_ev.src_path) = COLORS_FILE_NAME
                    THEN w_reloads + 1 ELSE w_reloads
  /\ w_last' = w_ev
  /\ w_ev' = NoEvent
  /\ UNCHANGED <<w_jobs, w_events, not_watch_vars>>

\* on_deleted: logged
on_deleted ==
  /\ w_ev.type = "deleted"
  /\ w_last' = w_ev
  /\ w_ev' = NoEvent
  /\ UNCHANGED <<w_jobs, w_reloads, w_events, not_watch_vars>>

WatchNext ==
  \/ Dispatch \/ OnCreated \/ on_moved \/ on_modified \/ on_closed
  \/ on_deleted

\* the handler alone: the model file and the CSV play no part
ComponentInit == Init /\ bin_file_exists /\ csv_at_start = "absent"

WatchSpec == ComponentInit /\ [][WatchNext]_vars

\* ------------------------------------------------------------------------
\* The highlight rules: FolderWatcherHandler._update_colors (observer
\* thread) and Output._highlight_text (Output thread)
\* ------------------------------------------------------------------------
\* _update_colors is called for a colors.yaml that exists
ReloadStart ==
  /\ reload_pc = "idle"
  /\ reloads < MaxReloads
  /\ reloads' = reloads + 1
  /\ \E f \in ColorsFiles : colors_file' = f
  /\ reload_pc' = "parse"
  /\ UNCHANGED <<colors, shared_colors, shared_colors_lock, valid_colors,
                 hl_pc, colors_copy, installed, not_colors_vars>>

\* a reload that installs whatever differs from the rules in force
ReloadParse_accept_empty ==
  /\ reload_pc = "parse"
  /\ IF ~colors_file.yaml_ok
       THEN /\ reload_pc' = "idle"
            /\ UNCHANGED <<colors, valid_colors>>
       ELSE /\ valid_colors' = colors_file.rules
            /\ IF colors_file.rules # colors
                 THEN /\ colors' = colors_file.rules
                      /\ reload_pc' = "lock"
                 ELSE /\ reload_pc' = "idle"
                      /\ UNCHANGED colors
  /\ UNCHANGED <<colors_file, shared_colors, shared_colors_lock, hl_pc,
                 colors_copy, installed, reloads, not_colors_vars>>

\* a reload that drops the rules when the file is not YAML
ReloadParse_clear_on_error ==
  /\ reload_pc = "parse"
  /\ IF ~colors_file.yaml_ok
       THEN /\ reload_pc' = "idle"
            /\ colors' = {}
            /\ UNCHANGED valid_colors
       ELSE /\ valid_colors' = colors_file.rules
            /\ IF colors_file.rules # {} /\ colors_file.rules # colors
                 THEN /\ colors' = colors_file.rules
                      /\ reload_pc' = "lock"
                 ELSE /\ reload_pc' = "idle"
                      /\ UNCHANGED colors
  /\ UNCHANGED <<colors_file, shared_colors, shared_colors_lock, hl_pc,
                 colors_copy, installed, reloads, not_colors_vars>>

\* yaml.load: YAMLError is logged and the function returns; otherwise the
\* valid colours are collected, and "if valid_colors and valid_colors !=
\* self.colors: self.colors = valid_colors"
ReloadParse ==
  /\ reload_pc = "parse"
  /\ IF ~colors_file.yaml_ok
       THEN /\ reload_pc' = "idle"
            /\ UNCHANGED <<colors, valid_colors>>
       ELSE /\ valid_colors' = colors_file.rules
            /\ IF colors_file.rules # {} /\ colors_file.rules # colors
                 THEN /\ colors' = colors_file.rules
                      /\ reload_pc' = "lock"
                 ELSE /\ reload_pc' = "idle"
                      /\ UNCHANGED colors
  /\ UNCHANGED <<colors_file, shared_colors, shared_colors_lock, hl_pc,
                 colors_copy, installed, reloads, not_colors_vars>>

\* with self.shared_colors_lock:
ReloadLock ==
  /\ reload_pc = "lock"
  /\ shared_colors_lock = "free"
  /\ shared_colors_lock' = "watcher"
  /\ reload_pc' = "clear"
  /\ UNCHANGED <<colors_file, colors, shared_colors, valid_colors, hl_pc,
                 colors_copy, installed, reloads, not_colors_vars>>

\* self.shared_colors.clear()
ReloadClear ==
  /\ reload_pc = "clear"
  /\ shared_colors' = {}
  /\ reload_pc' = "update"
  /\ UNCHANGED <<colors_file, colors, shared_colors_lock, valid_colors,
                 hl_pc, colors_copy, installed, reloads, not_colors_vars>>

\* self.shared_colors.update(valid_colors), and the lock is released
ReloadUpdate ==
  /\ reload_pc = "update"
  /\ shared_colors' = shared_colors \cup valid_colors
  /\ installed' = installed \cup {shared_colors'}
  /\ shared_colors_lock' = "free"
  /\ reload_pc' = "idle"
  /\ UNCHANGED <<colors_file, colors, valid_colors, hl_pc, colors_copy,
                 reloads, not_colors_vars>>

\* _highlight_text for a text that is not empty: colors_copy = {}
HighlightStart ==
  /\ hl_pc = "idle"
  /\ colors_copy' = {}
  /\ hl_pc' = "lock"
  /\ UNCHANGED <<colors_file, colors, shared_colors, shared_colors_lock,
                 reload_pc, valid_colors, installed, reloads, not_colors_vars>>

\* a reader that does not wait for the lock
HighlightLock_no_lock ==
  /\ hl_pc = "lock"
  /\ shared_colors_lock' = shared_colors_lock
  /\ hl_pc' = "copy"
  /\ UNCHANGED <<colors_file, colors, shared_colors, reload_pc,
                 valid_colors, colors_copy, installed, reloads, not_colors_vars>>

\* with shared_colors_lock:
HighlightLock ==
  /\ hl_pc = "lock"
  /\ shared_colors_lock = "free"
  /\ shared_colors_lock' = "output"
  /\ hl_pc' = "copy"
  /\ UNCHANGED <<colors_file, colors, shared_colors, reload_pc,
                 valid_colors, colors_copy, installed, reloads, not_colors_vars>>

\* if shared_colors: colors_copy = shared_colors.copy(); the lock is released
HighlightCopy ==
  /\ hl_pc = "copy"
  /\ colors_copy' = IF shared_colors # {} THEN shared_colors ELSE colors_copy
  /\ shared_colors_lock' = "free"
  /\ hl_pc' = "iterate"
  /\ UNCHANGED <<colors_file, colors, shared_colors, reload_pc,
                 valid_colors, installed, reloads, not_colors_vars>>

\* the loop over colors_copy.items()
HighlightIterate ==
  /\ hl_pc = "iterate"
  /\ hl_pc' = "idle"
  /\ UNCHANGED <<colors_file, colors, shared_colors, shared_colors_lock,
                 reload_pc, valid_colors, colors_copy, installed, reloads,
                 not_colors_vars>>

ColorsNext ==
  \/ ReloadStart \/ ReloadParse \/ ReloadLock \/ ReloadClear \/ ReloadUpdate
  \/ HighlightStart \/ HighlightLock \/ HighlightCopy \/ HighlightIterate

ColorsSpec == ComponentInit /\ [][ColorsNext]_vars

\* ------------------------------------------------------------------------
\* ModelManager (model.py): ensure_models_exist, one call
\* ------------------------------------------------------------------------
\* ModelManager.__init__: required_files is ["ggml"], and "coreml" too on
\* Darwin; the model directory is found in whatever state it was left in
ModelManagerInit ==
  /\ mm_pc = "new"
  /\ \E sys \in {"Darwin", "Linux"} :
       required_files' = IF sys = "Darwin" THEN <<"ggml", "coreml">>
                                             ELSE <<"ggml">>
  /\ \E d \in Dirs : disk' = d
  /\ mm_pc' = "ensure"
  /\ UNCHANGED <<missing_files, mm_i, mm_ret, downloads, extracted,
                 mismatch, not_model_vars>>

\* whether _get_missing_files lists file_type: for coreml, when the
\* extracted directory does not exist; for the others, unless the file
\* exists with the catalog's hash
IsMissing(d, file_type) ==
  IF file_type = "coreml"
    THEN ~d.mlmodelc
    ELSE ~(d[file_type] # Absent /\ Sha256(d[file_type]) = MODEL_INFO[file_type])

RECURSIVE _get_missing_files(_, _)
_get_missing_files(d, required) ==
  IF required = <<>> THEN <<>>
  ELSE (IF IsMissing(d, Head(required)) THEN <<Head(required)>> ELSE <<>>)
       \o _get_missing_files(d, Tail(required))

\* missing_files = self._get_missing_files(); if not missing_files: return True
EnsureModelsExist ==
  /\ mm_pc = "ensure"
  /\ missing_files' = _get_missing_files(disk, required_files)
  /\ IF missing_files' = <<>>
       THEN mm_ret' = "True" /\ mm_pc' = "done"
       ELSE mm_ret' = mm_ret /\ mm_pc' = "sizes"
  /\ UNCHANGED <<required_files, disk, mm_i, downloads, extracted, mismatch,
                 not_model_vars>>

\* the HEAD requests for the sizes: return False when one fails
GetFileSizes ==
  /\ mm_pc = "sizes"
  /\ \E ok \in BOOLEAN :
       IF ok THEN mm_ret' = mm_ret /\ mm_pc' = "confirm"
             ELSE mm_ret' = "False" /\ mm_pc' = "done"
  /\ UNCHANGED <<required_files, disk, missing_files, mm_i, downloads,
                 extracted, mismatch, not_model_vars>>

\* Confirm.ask: return False when the user declines
ConfirmAsk ==
  /\ mm_pc = "confirm"
  /\ \E yes \in BOOLEAN :
       IF yes THEN mm_ret' = mm_ret /\ mm_pc' = "download" /\ mm_i' = 1
              ELSE mm_ret' = "False" /\ mm_pc' = "done" /\ mm_i' = mm_i
  /\ UNCHANGED <<required_files, disk, missing_files, downloads, extracted,
                 mismatch, not_model_vars>>

\* the end of one pass of the download loop: the next missing file, or
\* return True after the last
NextMissing ==
  IF mm_i < Len(missing_files)
    THEN mm_i' = mm_i + 1 /\ mm_pc' = "download" /\ mm_ret' = mm_ret
    ELSE mm_i' = mm_i /\ mm_pc' = "done" /\ mm_ret' = "True"

\* _download_file: the file is opened for writing and filled from the
\* response; return False when the request or the transfer fails, which
\* can leave the file as it was or truncated
DownloadFile ==
  /\ mm_pc = "download"
  /\ LET file_type == missing_files[mm_i] IN
       \/ /\ \E c \in Contents \ {TruncatedBytes} :
                disk' = [disk EXCEPT ![file_type] = c]
          /\ downloads' = Append(downloads, file_type)
          /\ mm_pc' = "verify"
          /\ mm_ret' = mm_ret
       \/ /\ \E c \in {disk[file_type], TruncatedBytes} :
                disk' = [disk EXCEPT ![file_type] = c]
          /\ downloads' = downloads
          /\ mm_pc' = "done"
          /\ mm_ret' = "False"
  /\ UNCHANGED <<required_files, missing_files, mm_i, extracted, mismatch,
                 not_model_vars>>

\* a verification that logs the wrong hash and carries on
VerifyDownload_carry_on ==
  /\ mm_pc = "verify"
  /\ LET file_type == missing_files[mm_i] IN
       /\ mismatch' = IF Sha256(disk[file_type]) # MODEL_INFO[file_type]
                        THEN file_type ELSE mismatch
       /\ IF file_type = "coreml"
            THEN mm_pc' = "extract" /\ mm_i' = mm_i /\ mm_ret' = mm_ret
            ELSE NextMissing
  /\ UNCHANGED <<required_files, disk, missing_files, downloads, extracted,
                 not_model_vars>>

\* calculated_hash = self._calculate_hash(file_path); return False when it
\* is not the catalog's; the CoreML archive goes on to the extraction
VerifyDownload ==
  /\ mm_pc = "verify"
  /\ LET file_type == missing_files[mm_i] IN
       IF Sha256(disk[file_type]) # MODEL_INFO[file_type]
         THEN /\ mismatch' = file_type
              /\ mm_ret' = "False"
              /\ mm_pc' = "done"
              /\ mm_i' = mm_i
         ELSE /\ mismatch' = mismatch
              /\ IF file_type = "coreml"
                   THEN mm_pc' = "extract" /\ mm_i' = mm_i /\ mm_ret' = mm_ret
                   ELSE NextMissing
  /\ UNCHANGED <<required_files, disk, missing_files, downloads, extracted,
                 not_model_vars>>

\* _extract_coreml_model: extractall into the model directory; return
\* False when it raises, with or without the directory already made
ExtractCoremlModel ==
  /\ mm_pc = "extract"
  /\ extracted' = extracted \cup {missing_files[mm_i]}
  /\ \/ /\ disk' = [disk EXCEPT !.mlmodelc = TRUE]
        /\ NextMissing
     \/ /\ \E made \in {disk.mlmodelc, TRUE} :
              disk' = [disk EXCEPT !.mlmodelc = made]
        /\ mm_ret' = "False"
        /\ mm_pc' = "done"
        /\ mm_i' = mm_i
  /\ UNCHANGED <<required_files, missing_files, downloads, mismatch,
                 not_model_vars>>

ModelNext ==
  \/ ModelManagerInit \/ EnsureModelsExist \/ GetFileSizes \/ ConfirmAsk
  \/ DownloadFile \/ VerifyDownload \/ ExtractCoremlModel

ModelSpec == ComponentInit /\ [][ModelNext]_vars

\* ------------------------------------------------------------------------
\* The catalog of models (modelutils.py): fetched, written to models.json,
\* read back and validated
\* ------------------------------------------------------------------------
\* fetch_available_models: the models of the repository page, each with its
\* sizes and hashes; it raises when a request fails or the details of a
\* file cannot be had (the None of get_file_details cannot be unpacked)
FetchAvailableModels ==
  /\ cat_pc \in {"start", "validated", "interrupted", "raised"}
  /\ writes < MaxWrites
  /\ \E sys \in (IF cat_pc = "start" THEN {"Darwin", "Linux"} ELSE {system}) :
       system' = sys
  /\ \/ /\ \E n \in 0..Len(ModelNames) : model_info' = Fetched(system', n)
        /\ cat_pc' = "fetched"
     \/ /\ cat_pc' = "raised"
        /\ model_info' = model_info
  /\ UNCHANGED <<catalog_file, previous_file, read_back, accepted, writes,
                 not_catalog_vars>>

\* write_model_info_file: open(file_path, "w") makes the file or empties it
WriteOpen ==
  /\ cat_pc = "fetched"
  /\ writes' = writes + 1
  /\ previous_file' = catalog_file
  /\ catalog_file' = [exists |-> TRUE, text |-> <<>>]
  /\ cat_pc' = "dump"
  /\ UNCHANGED <<system, model_info, read_back, accepted, not_catalog_vars>>

\* json.dump(model_info, f, indent=4): the next piece of the text reaches
\* the file; after the last the file is closed and True is returned
WriteDump ==
  /\ cat_pc = "dump"
  /\ LET text == json_dump(model_info)
         done == Len(catalog_file.text) IN
       /\ catalog_file' = [catalog_file EXCEPT !.text = Append(@, text[done + 1])]
       /\ cat_pc' = IF done + 1 = Len(text) THEN "written" ELSE "dump"
  /\ UNCHANGED <<system, model_info, previous_file, read_back, accepted,
                 writes, not_catalog_vars>>

\* KeyboardInterrupt, an error of the write, or the end of the process
\* while the file is open: the exception is raised on, the file stays
WriteInterrupted ==
  /\ cat_pc = "dump"
  /\ cat_pc' = "interrupted"
  /\ UNCHANGED <<system, model_info, catalog_file, previous_file, read_back,
                 accepted, writes, not_catalog_vars>>

\* read_model_info_file: json.loads(f.read()); it raises on a text that
\* is not JSON
ReadModelInfoFile ==
  /\ cat_pc \in {"written", "interrupted"}
  /\ catalog_file.exists
  /\ IF IsJson(catalog_file.text)
       THEN read_back' = json_loads(catalog_file.text) /\ cat_pc' = "read"
       ELSE read_back' = read_back /\ cat_pc' = "raised"
  /\ UNCHANGED <<system, model_info, catalog_file, previous_file, accepted,
                 writes, not_catalog_vars>>

required_keys == {"url", "size", "sha256", "downloaded"}

\* validate_model_info: False for an empty catalog; for each model_data,
\* False unless it has "bin", "coreml" too on Darwin, and every one of
\* required_keys as a key of model_data
validate_model_info(mi, sys) ==
  IF mi = <<>> THEN FALSE
  ELSE \A k \in 1..Len(mi) :
         LET model_data == mi[k].data IN
           /\ "bin" \in DOMAIN model_data
           /\ ~(sys = "Darwin" /\ "coreml" \notin DOMAIN model_data)
           /\ \A key \in required_keys : key \in DOMAIN model_data

ValidateModelInfo ==
  /\ cat_pc = "read"
  /\ accepted' = IF validate_model_info(read_back, system) THEN "True" ELSE "False"
  /\ cat_pc' = "validated"
  /\ UNCHANGED <<system, model_info, catalog_file, previous_file, read_back,
                 writes, not_catalog_vars>>

CatalogNext ==
  \/ FetchAvailableModels \/ WriteOpen \/ WriteDump \/ WriteInterrupted
  \/ ReadModelInfoFile \/ ValidateModelInfo

CatalogSpec == ComponentInit /\ [][CatalogNext]_vars

\* ------------------------------------------------------------------------
\* The Decoder on its own (decoder.py): _decode_loop, _load_audio, shutdown
\* ------------------------------------------------------------------------
\* the Watcher puts a Transcription on the decoding queue
DecPut ==
  /\ offered < MaxJobs
  /\ offered' = offered + 1
  /\ \E e \in Extensions : dec_in' = Append(dec_in, Job(offered', e))
  /\ UNCHANGED <<dec_out, dec_pc, transcription, stop_event, temp_files,
                 pending, dec_log, left_at_exit, temps_made,
                 not_dec_vars>>

\* the Transcriber takes a Transcription from the transcribing queue
DecTake ==
  /\ dec_out # <<>>
  /\ dec_out' = Tail(dec_out)
  /\ UNCHANGED <<dec_in, dec_pc, transcription, stop_event, temp_files,
                 pending, dec_log, offered, left_at_exit, temps_made,
                 not_dec_vars>>

\* Decoder.shutdown: self.stop_event.set() (the join that follows changes
\* nothing)
shutdown ==
  /\ ~stop_event
  /\ stop_event' = TRUE
  /\ UNCHANGED <<dec_in, dec_out, dec_pc, transcription, temp_files, pending,
                 dec_log, offered, left_at_exit, temps_made,
                 not_dec_vars>>

\* while not stop_event.is_set(): the loop and the thread end when the
\* event is set; otherwise decoding_queue.get(timeout=0.5), Empty going
\* round the loop
DecodeLoopGet ==
  /\ dec_pc = "wait"
  /\ IF stop_event
       THEN /\ dec_pc' = "exited"
            /\ left_at_exit' = {dec_in[k].id : k \in 1..Len(dec_in)}
            /\ UNCHANGED <<dec_in, transcription>>
       ELSE /\ dec_in # <<>>
            /\ transcription' = Head(dec_in)
            /\ dec_in' = Tail(dec_in)
            /\ dec_pc' = "got"
            /\ UNCHANGED left_at_exit
  /\ UNCHANGED <<dec_out, stop_event, temp_files, pending, dec_log, offered,
                 temps_made,
                 not_dec_vars>>

\* a loop that logs the failure and carries on with the job
DecodeLoopLoad_forward_failed ==
  /\ dec_pc = "got"
  /\ IF stop_event
       THEN /\ dec_pc' = "wait"
            /\ left_at_exit' = left_at_exit \cup {transcription.id}
            /\ transcription' = NoJob
            /\ UNCHANGED dec_log
       ELSE /\ UNCHANGED left_at_exit
            /\ IF transcription.ext = "wav"
                 THEN \/ /\ transcription' = [transcription EXCEPT !.audio = TRUE]
                         /\ dec_pc' = "loaded"
                         /\ UNCHANGED dec_log
                      \/ /\ dec_log' = dec_log \cup {transcription.id}
                         /\ transcription' = transcription
                         /\ dec_pc' = "loaded"
                 ELSE \/ /\ dec_pc' = "mktemp"
                         /\ UNCHANGED <<transcription, dec_log>>
                      \/ /\ dec_log' = dec_log \cup {transcription.id}
                         /\ transcription' = transcription
                         /\ dec_pc' = "loaded"
  /\ UNCHANGED <<dec_in, dec_out, stop_event, temp_files, pending, offered,
                 temps_made,
                 not_dec_vars>>

\* if not stop_event.is_set(): _load_audio is entered; with the event set
\* the transcription is let go and the loop goes round.
\* _load_audio of a .wav path is wav_to_np(media_file_path), which returns
\* the samples or raises (unreadable file, odd number of bytes); of another
\* path it first looks for ffmpeg and raises when there is none
DecodeLoopLoad ==
  /\ dec_pc = "got"
  /\ IF stop_event
       THEN /\ dec_pc' = "wait"
            /\ left_at_exit' = left_at_exit \cup {transcription.id}
            /\ transcription' = NoJob
            /\ UNCHANGED dec_log
       ELSE /\ UNCHANGED left_at_exit
            /\ IF transcription.ext = "wav"
                 THEN \/ /\ transcription' = [transcription EXCEPT !.audio = TRUE]
                         /\ dec_pc' = "loaded"
                         /\ UNCHANGED dec_log
                      \/ /\ dec_log' = dec_log \cup {transcription.id}
                         /\ transcription' = NoJob
                         /\ dec_pc' = "wait"
                 ELSE \/ /\ dec_pc' = "mktemp"
                         /\ UNCHANGED <<transcription, dec_log>>
                      \/ /\ dec_log' = dec_log \cup {transcription.id}
                         /\ transcription' = NoJob
                         /\ dec_pc' = "wait"
  /\ UNCHANGED <<dec_in, dec_out, stop_event, temp_files, pending, offered,
                 temps_made,
                 not_dec_vars>>

\* temp_file = tempfile.NamedTemporaryFile(suffix=".wav", delete=False);
\* temp_file.close(): the file exists from here on
LoadAudioMkTemp ==
  /\ dec_pc = "mktemp"
  /\ temp_files' = temp_files \cup {transcription.id}
  /\ temps_made' = temps_made \cup {transcription.id}
  /\ dec_pc' = "ffmpeg"
  /\ UNCHANGED <<dec_in, dec_out, transcription, stop_event, pending, dec_log,
                 offered, left_at_exit, not_dec_vars>>

\* try: subprocess.run([ffmpeg ...], check=True): CalledProcessError when
\* ffmpeg exits non-zero, another error when it cannot be started
LoadAudioFfmpeg ==
  /\ dec_pc = "ffmpeg"
  /\ \/ dec_pc' = "read" /\ pending' = pending
     \/ dec_pc' = "finally" /\ pending' = "raise"
  /\ UNCHANGED <<dec_in, dec_out, transcription, stop_event, temp_files,
                 dec_log, offered, left_at_exit, temps_made,
                 not_dec_vars>>

\* return wav_to_np(temp_file_path): the samples, or an exception
LoadAudioRead ==
  /\ dec_pc = "read"
  /\ \E how \in {"return", "raise"} : pending' = how
  /\ dec_pc' = "finally"
  /\ UNCHANGED <<dec_in, dec_out, transcription, stop_event, temp_files,
                 dec_log, offered, left_at_exit, temps_made,
                 not_dec_vars>>

\* a clean-up that is done only when the samples were read
LoadAudioFinally_on_success ==
  /\ dec_pc = "finally"
  /\ pending' = "none"
  /\ IF pending = "return"
       THEN /\ temp_files' = temp_files \ {transcription.id}
            /\ transcription' = [transcription EXCEPT !.audio = TRUE]
            /\ dec_pc' = "loaded"
            /\ UNCHANGED dec_log
       ELSE /\ temp_files' = temp_files
            /\ dec_log' = dec_log \cup {transcription.id}
            /\ transcription' = NoJob
            /\ dec_pc' = "wait"
  /\ UNCHANGED <<dec_in, dec_out, stop_event, offered, left_at_exit,
                 temps_made,
                 not_dec_vars>>

\* finally: os.remove(temp_file_path); then _load_audio returns to
\* "transcription.audio = audio_data", or raises to "except Exception",
\* which logs the error
LoadAudioFinally ==
  /\ dec_pc = "finally"
  /\ temp_files' = temp_files \ {transcription.id}
  /\ pending' = "none"
  /\ IF pending = "return"
       THEN /\ transcription' = [transcription EXCEPT !.audio = TRUE]
            /\ dec_pc' = "loaded"
            /\ UNCHANGED dec_log
       ELSE /\ dec_log' = dec_log \cup {transcription.id}
            /\ transcription' = NoJob
            /\ dec_pc' = "wait"
  /\ UNCHANGED <<dec_in, dec_out, stop_event, offered, left_at_exit,
                 temps_made,
                 not_dec_vars>>

\* if not stop_event.is_set(): transcribing_queue.put(transcription)
DecodeLoopPut ==
  /\ dec_pc = "loaded"
  /\ IF stop_event
       THEN /\ left_at_exit' = left_at_exit \cup {transcription.id}
            /\ UNCHANGED dec_out
       ELSE /\ dec_out' = Append(dec_out, transcription)
            /\ UNCHANGED left_at_exit
  /\ transcription' = NoJob
  /\ dec_pc' = "wait"
  /\ UNCHANGED <<dec_in, stop_event, temp_files, pending, dec_log, offered,
                 temps_made,
                 not_dec_vars>>

DecoderNext ==
  \/ DecPut \/ DecTake \/ shutdown
  \/ DecodeLoopGet \/ DecodeLoopLoad \/ LoadAudioMkTemp \/ LoadAudioFfmpeg
  \/ LoadAudioRead \/ LoadAudioFinally \/ DecodeLoopPut

DecoderSpec == ComponentInit /\ [][DecoderNext]_vars

\* ------------------------------------------------------------------------
\* wav_to_np (decoder.py) on a file of one sample
\* ------------------------------------------------------------------------
\* raw_data = f.read(): the two bytes after the header, any two
WavRead ==
  /\ wav_pc = "read"
  /\ \E lo \in Bytes, hi \in Bytes : raw_data' = <<lo, hi>>
  /\ wav_pc' = "frombuffer"
  /\ UNCHANGED <<samples, audio_array, not_sample_vars>>

\* samples = np.frombuffer(raw_data, dtype=np.int16)
WavFromBuffer ==
  /\ wav_pc = "frombuffer"
  /\ samples' = frombuffer(raw_data)
  /\ wav_pc' = "astype"
  /\ UNCHANGED <<raw_data, audio_array, not_sample_vars>>

\* audio_array = samples.astype(np.float32) / np.iinfo(np.int16).max
WavToFloat ==
  /\ wav_pc = "astype"
  /\ audio_array' = wav_to_np(samples)
  /\ wav_pc' = "done"
  /\ UNCHANGED <<raw_data, samples, not_sample_vars>>

SampleNext == WavRead \/ WavFromBuffer \/ WavToFloat

SampleSpec == ComponentInit /\ [][SampleNext]_vars

\* ------------------------------------------------------------------------
\* Output._highlight_text (output.py), one call
\* ------------------------------------------------------------------------
\* the call with any transcript and any copy of the shared colours: the
\* text is returned as it is when it is empty or there are no colours;
\* otherwise highlighted_text = text, search_text = text.lower()
HighlightCall ==
  /\ ht_pc = "call"
  /\ \E t \in Texts, c \in ColorsCopies :
       /\ ht_text' = t
       /\ colors_items' = c
       /\ highlighted_text' = t
       /\ search_text' = lower(t)
       /\ ht_pc' = IF t = <<>> \/ c = <<>> THEN "returned" ELSE "phrase"
  /\ ht_i' = 1
  /\ ht_j' = 1
  /\ UNCHANGED <<wrapped, not_ht_vars>>

\* one phrase of one colour: positions = the occurrences of phrase.lower()
\* in search_text; they are wrapped from the last to the first; then the
\* next phrase, the next colour, or return highlighted_text
HighlightPhrase ==
  /\ ht_pc = "phrase"
  /\ LET color == colors_items[ht_i].color
         phrases == colors_items[ht_i].phrases
         positions == finditer(lower(phrases[ht_j]), search_text)
         after == HighlightPositions(highlighted_text, search_text,
                                     positions, Len(positions), color)
     IN /\ highlighted_text' = after.highlighted_text
        /\ search_text' = after.search_text
        /\ wrapped' = wrapped \o Reversed(positions, color)
        /\ IF ht_j < Len(phrases)
             THEN ht_j' = ht_j + 1 /\ ht_i' = ht_i /\ ht_pc' = ht_pc
             ELSE /\ ht_j' = 1
                  /\ ht_i' = ht_i + 1
                  /\ ht_pc' = IF ht_i < Len(colors_items) THEN "phrase"
                                                          ELSE "returned"
  /\ UNCHANGED <<ht_text, colors_items, not_ht_vars>>

HighlightNext == HighlightCall \/ HighlightPhrase

HighlightSpec == ComponentInit /\ [][HighlightNext]_vars


\* Scheduling: the main thread runs whenever it can.  Nothing is assumed of
\* the worker (loading the model or an inference may take arbitrarily long),
\* of the filesystem or of SIGINT.
FairSpec == Spec /\ WF_vars(Supervisor)

\* ------------------------------------------------------------------------
\* Properties
\* ------------------------------------------------------------------------
rows == {csv_file[i] : i \in 1..Len(csv_file)} \ {Header, OldRow}
emitted == 1..(next_file - 1)
exited == exit_code # NoExit

DecoderThreadAlive == ProcessAlive /\ decoder_pc # "exited"
OutputThreadAlive == ProcessAlive /\ output_pc # "exited"
ObserverRunning == ProcessAlive /\ observer_alive

IsPrefix(a, b) == Len(a) <= Len(b) /\ SubSeq(b, 1, Len(a)) = a

\* C1: every Job the Watcher put on the decoding queue ends as a CSV row or
\* with an error logged for it: once the process has exited, no emitted file
\* is without both.
C1_NoJobLost ==
  exited => \A f \in emitted : f \in rows \/ f \in error_log

\* C2: at a quiescent moment (no put or get in progress) size() is the number
\* of items put and not yet got.
C2_SizeAtQuiescence ==
  (put_pc = "idle" /\ get_pc = "idle") =>
     /\ size = n_put - n_got
     /\ size = Len(tq_queue)

\* C3: the Jobs waiting in Q2 at a steady-state SIGINT with Q3 empty are all
\* in the CSV when the process exits (a Job whose inference or write raised,
\* and was logged, is excused).
C3_GracefulSigint ==
  exited => \A f \in sigint_q2 : f \in rows \/ f \in error_log

\* C4: once a call of SignalScribeApp.stop has ended (by returning or by the
\* exception it re-raises), the worker process, the Decoder thread, the Output
\* thread and the Watcher's observer no longer run.
C4_AllStopped ==
  stops_ended > 0 =>
     /\ ~WorkerAlive
     /\ ~DecoderThreadAlive
     /\ ~OutputThreadAlive
     /\ ~ObserverRunning

\* C5: a SIGINT received in steady state (the status loop) ends in exit
\* status 0, never in an error exit.
C5_SigintExitsZero ==
  (sigint_at = "status_loop" /\ exited) => exit_code = EXIT_OK

StartupFailed == ~ever_running /\ shared_dict.status \in {ERROR, SHUTDOWN}

\* C6: when the worker status has become ERROR or SHUTDOWN without ever having
\* been RUNNING, setup never completes: the Watcher is not started, no Job
\* enters the decoding queue, and the process exits, with status 1.
C6_StartupFailure ==
  /\ [](StartupFailed =>
          /\ ~observer_alive
          /\ emitted = {}
          /\ decoding_queue = <<>>
          /\ app_pc \notin {"params_done", "run", "status_loop"}
          /\ exit_code \in {NoExit, EXIT_ERROR})
  /\ (StartupFailed ~> exit_code = EXIT_ERROR)

C6_Witness ==
  StartupFailed /\ sigint_at = "none" /\ exit_code = EXIT_ERROR

\* C7: the wait of print_parameters for RUNNING takes at most
\* max_wait / wait_interval polls, whatever the worker does.
C7_BoundedWait ==
  polls <= max_wait \div wait_interval

\* the edges of the lifecycle diagram of the worker status
LifecycleEdges ==
  { <<INITIALISED, LOADING>>, <<LOADING, RUNNING>>, <<RUNNING, SHUTDOWN>>,
    <<LOADING, ERROR>>, <<RUNNING, ERROR>> }

\* C8: the status in the shared map changes only along the edges of the
\* lifecycle diagram; ERROR and SHUTDOWN are left by no edge.
C8_StatusEdges ==
  [][shared_dict'.status # shared_dict.status =>
       <<shared_dict.status, shared_dict'.status>> \in LifecycleEdges]_vars

\* C9: once the worker has dequeued the sentinel it starts no transcription,
\* puts nothing on the output queue, takes nothing more from the transcribing
\* queue (what is queued behind the sentinel stays), counts no error, and its
\* one remaining step writes SHUTDOWN and ends the process.
C9_AfterSentinel ==
  [][sentinel_seen =>
       /\ worker_pc' \in {"final", "exited"}
       /\ worker_job' = NoneItem
       /\ IsPrefix(transcribing_queue, transcribing_queue')
       /\ Len(output_queue') <= Len(output_queue)
       /\ shared_dict'.error_count = shared_dict.error_count
       /\ (worker_pc = "final" /\ worker_pc' = "exited" /\ ~worker_terminated')
             => shared_dict'.status = SHUTDOWN]_vars

\* the worker has exited on the sentinel, showing SHUTDOWN, and a Job queued
\* behind the sentinel is still in the transcribing queue
C9_Witness ==
  /\ sentinel_seen
  /\ worker_pc = "exited"
  /\ ~worker_terminated
  /\ shared_dict.status = SHUTDOWN
  /\ \E i \in 1..Len(transcribing_queue) : transcribing_queue[i].id \in Files

InStopLoop == app_pc \in {"stop_wait", "stop_sleep"}

C11_PerJobError ==
  /\ [](/\ shared_dict.error_count = Cardinality(raised)
        /\ raised \cap (Ids(output_queue) \cup {output_job.id} \cup rows) = {})
  /\ [][raised' # raised =>
          /\ shared_dict'.error_count = shared_dict.error_count + 1
          /\ output_queue' = output_queue
          /\ shared_dict.status = RUNNING
          /\ shared_dict'.status = RUNNING
          /\ worker_pc' = "loop"
          /\ WorkerAlive']_vars

\* the inference of file 1 raised, and the worker, still RUNNING, has passed
\* file 2 on to the output queue
C11_Witness ==
  /\ raised = {1}
  /\ shared_dict.error_count = 1
  /\ shared_dict.status = RUNNING
  /\ 2 \in Ids(output_queue)

\* C12: when the model's .bin file is absent as the worker starts, the worker
\* never calls the model loader, never shows RUNNING, never holds a Job and
\* takes nothing from the transcribing queue, and it leaves the check of the
\* file with the status ERROR.
C12_BinAbsent ==
  /\ [](~bin_file_exists =>
          /\ ~loader_invoked
          /\ ~ever_running
          /\ shared_dict.status # RUNNING
          /\ worker_job = NoneItem
          /\ ~sentinel_seen
          /\ worker_pc \in {"entry", "preflight", "final", "exited"}
          /\ (worker_pc = "final" => shared_dict.status = ERROR))
  /\ [][~bin_file_exists =>
          /\ IsPrefix(transcribing_queue, transcribing_queue')
          /\ (worker_pc = "preflight" /\ worker_pc' # "preflight"
                 /\ ~worker_terminated') => shared_dict'.status = ERROR]_vars

\* the file is absent and the worker has left the check of it with ERROR
C12_Witness ==
  /\ ~bin_file_exists
  /\ worker_pc = "final"
  /\ shared_dict.status = ERROR
  /\ ~worker_terminated

\* the step puts the sentinel on the transcribing queue
SentinelPushed ==
  /\ Len(transcribing_queue') = Len(transcribing_queue) + 1
  /\ transcribing_queue'[Len(transcribing_queue')] = NoneItem

\* C13: shutdown stops the Watcher first, then the Decoder, then the
\* Transcriber, then Output: when the sentinel is pushed onto the transcribing
\* queue the observer and the Decoder thread no longer run, and the Output
\* thread still does.
C13_ReverseOrder ==
  [][SentinelPushed =>
       /\ ~ObserverRunning
       /\ ~DecoderThreadAlive
       /\ OutputThreadAlive]_vars

\* the shutdown sequence has called FolderWatcher.stop and it has returned
WatcherStopped == app_pc = "decoder_stop" \/ stops_ended > 0

\* C14: once the shutdown sequence has stopped the Watcher, no Job is put on
\* the decoding queue any more.
C14_NoJobAfterWatcherStop ==
  [][WatcherStopped =>
       /\ next_file' = next_file
       /\ Len(decoding_queue') <= Len(decoding_queue)]_vars

\* print_parameters has read the status RUNNING
SupervisorSawRunning ==
  \/ app_pc \in {"params_done", "run", "status_loop"}
  \/ sigint_at \in {"params_done", "run", "status_loop"}

\* C15: the Decoder and Output threads run only once the supervisor has seen
\* the worker RUNNING, the observer runs only once they do, and nothing is
\* put on or taken from a queue before the worker has been RUNNING.
C15_StartupOrder ==
  /\ (DecoderThreadAlive \/ OutputThreadAlive) => SupervisorSawRunning
  /\ ObserverRunning => SupervisorSawRunning
  /\ ~ever_running =>
        /\ decoding_queue = <<>> /\ output_queue = <<>>
        /\ decoder_job = NoneItem /\ worker_job = NoneItem
        /\ output_job = NoneItem

\* the rows of the CSV that this run's Jobs produced, in file order
IsJobRow(r) == r \in Files
JobRows == SelectSeq(csv_file, IsJobRow)

\* C16: the rows of the CSV are an order-preserving subsequence of the
\* sequence in which the Watcher enqueued the Jobs (file 1, file 2, ...):
\* of two rows the earlier belongs to the Job enqueued earlier, and every row
\* belongs to a Job that was enqueued.
C16_CsvOrder ==
  /\ \A i, j \in 1..Len(JobRows) : i < j => JobRows[i] < JobRows[j]
  /\ \A i \in 1..Len(JobRows) : JobRows[i] \in emitted

\* the rows of file 1 and of file 2 are both in the CSV
C16_Witness == JobRows = <<1, 2>>

\* how often file f's Job is in queue q, held by a stage, and in the CSV
CountIn(q, f) == Cardinality({i \in 1..Len(q) : q[i].id = f})
HeldBy(job, f) == IF job.id = f THEN 1 ELSE 0
Held(f) ==
  CountIn(decoding_queue, f) + HeldBy(decoder_job, f)
    + CountIn(transcribing_queue, f) + HeldBy(worker_job, f)
    + CountIn(output_queue, f) + HeldBy(output_job, f)
RowsOf(f) == Cardinality({i \in 1..Len(csv_file) : csv_file[i] = f})

\* C17: every Job is in at most one of the decoding queue, the Decoder, the
\* transcribing queue, the worker, the output queue and Output, and at most
\* once there; it has at most one row in the CSV, and none while a stage
\* still holds it.
C17_OnePlace ==
  \A f \in Files :
     /\ Held(f) <= 1
     /\ RowsOf(f) <= 1
     /\ Held(f) + RowsOf(f) <= 1
     /\ f \notin emitted => Held(f) = 0

\* file 1's Job has gone through the pipeline to the output queue while the
\* Decoder holds file 2's
C17_Witness ==
  /\ CountIn(output_queue, 1) = 1
  /\ decoder_job.id = 2
  /\ Held(1) = 1 /\ Held(2) = 1

\* the Jobs (not the sentinel) in queue q
JobsIn(q) == {q[i] : i \in {k \in 1..Len(q) : q[k] # NoneItem}}

\* C18: the waveform (audio) is set on every Job in the transcribing queue
\* and on no Job anywhere else: not in the decoding queue, and not, once the
\* transcription is done, in the output queue or with Output.
C18_AudioField ==
  /\ \A t \in JobsIn(decoding_queue) : ~t.audio
  /\ \A t \in JobsIn(transcribing_queue) : t.audio
  /\ \A t \in JobsIn(output_queue) : ~t.audio
  /\ output_job # NoneItem => ~output_job.audio

\* C19: text is set exactly on the Jobs whose inference the worker completed
\* without raising: set on every Job in the output queue and with Output,
\* unset on every Job in the decoding and transcribing queues, with the
\* Decoder and with the worker, and unset on a Job at the moment it is
\* dropped because its inference raised.
C19_TextField ==
  /\ [](/\ \A t \in JobsIn(decoding_queue) \cup JobsIn(transcribing_queue) :
              ~t.text
        /\ ~decoder_job.text
        /\ ~worker_job.text
        /\ \A t \in JobsIn(output_queue) : t.text /\ t.id \notin raised
        /\ output_job # NoneItem => output_job.text)
  /\ [][raised' # raised => ~worker_job.text]_vars

\* file 1's Job was dropped when its inference raised; file 2's is in the
\* output queue with its text
C19_Witness ==
  /\ raised = {1}
  /\ \E t \in JobsIn(output_queue) : t.id = 2 /\ t.text

C21_OnlyAudioJobs ==
  \A i \in 1..Len(w_jobs) :
     /\ Ext(basename(w_jobs[i])) \in formats
     /\ basename(w_jobs[i]) # COLORS_FILE_NAME

\* the path an event is about: the destination of a move, the source
\* otherwise
EventPath(e) == IF e.type = "moved" THEN e.dest_path ELSE e.src_path

\* C22: an event on a hidden path has no effect: handling it puts no Job on
\* the queue and reloads no colors.
C22_HiddenIgnored ==
  [][(w_ev # NoEvent /\ is_hidden(EventPath(w_ev))) =>
        /\ w_jobs' = w_jobs
        /\ w_reloads' = w_reloads]_vars

\* a created event for a hidden audio file has been handled, and nothing
\* was put on the queue
C22_Witness ==
  /\ w_ev = NoEvent
  /\ w_last.type = "created"
  /\ is_hidden(w_last.src_path)
  /\ Ext(basename(w_last.src_path)) \in formats
  /\ w_events = 1
  /\ w_jobs = <<>>

\* the directory of a path, and two paths lying one in a directory and the
\* other in a sub-directory of it
dirname(path) == SubSeq(path, 1, Len(path) - 1)
ParentChild(src_path, dest_path) ==
  /\ dirname(src_path) # dirname(dest_path)
  /\ \/ IsPrefix(dirname(src_path), dirname(dest_path))
     \/ IsPrefix(dirname(dest_path), dirname(src_path))

\* C23: a moved event whose source and destination lie in a directory and a
\* sub-directory of it, neither hidden, puts no Job on the queue; every other
\* moved event with a visible destination of a configured format puts
\* exactly one Job on the queue, carrying the destination path.
C23_MoveSuppressed ==
  [][w_ev.type = "moved" =>
       IF /\ ParentChild(w_ev.src_path, w_ev.dest_path)
          /\ ~is_hidden(w_ev.src_path)
          /\ ~is_hidden(w_ev.dest_path)
         THEN w_jobs' = w_jobs
         ELSE (/\ ~is_hidden(w_ev.dest_path)
               /\ Ext(basename(w_ev.dest_path)) \in formats)
                 => w_jobs' = Append(w_jobs, w_ev.dest_path)]_vars


\* C24: when colors.yaml cannot be parsed as YAML, the reload changes
\* nothing: the Watcher's own rules and the shared map stay as they were,
\* and the reload ends without taking the lock.
C24_InvalidYamlKeepsRules ==
  [][(reload_pc = "parse" /\ ~colors_file.yaml_ok)
       => /\ colors' = colors
          /\ shared_colors' = shared_colors
          /\ reload_pc' \in {"parse", "idle"}]_vars

\* a reload of an unparsable file has ended and the rules installed before
\* it are still in force
C24_Witness ==
  /\ reload_pc = "idle"
  /\ ~colors_file.yaml_ok
  /\ colors \in RuleSets
  /\ shared_colors = colors

\* C25: whatever the interleaving, the Output never copies the shared map
\* between its clearing and its refilling, and the snapshot it iterates is
\* one complete rule set: the initial empty one or one a completed reload
\* installed.
C25_SnapshotComplete ==
  /\ hl_pc = "copy" => reload_pc \notin {"clear", "update"}
  /\ hl_pc = "iterate" => colors_copy \in installed

\* a snapshot taken after a second reload replaced the first rule set
C25_Witness ==
  /\ hl_pc = "iterate"
  /\ colors_copy \in RuleSets
  /\ Cardinality(installed) = 3


\* an asset is on disk with the SHA-256 of the catalog
AssetValid(file_type) ==
  /\ disk[file_type] # Absent
  /\ Sha256(disk[file_type]) = MODEL_INFO[file_type]

Required == {required_files[k] : k \in 1..Len(required_files)}

\* C26: ensure_models_exist returns True only if every asset required on
\* the platform is on disk with a SHA-256 equal to the catalog value: the
\* bin file and, where it is required, the coreml asset.
C26_ReadyOnlyIfVerified ==
  mm_ret = "True" => \A file_type \in Required : AssetValid(file_type)

\* the part of C26 about the bin file
C26_BinVerified ==
  mm_ret = "True" => AssetValid("ggml")

\* C27: when the SHA-256 of a freshly downloaded asset differs from the
\* catalog value, ensure_models_exist returns False at that point: the
\* asset was downloaded once and is the last one downloaded, it was not
\* extracted, and nothing is downloaded, extracted or written afterwards.
C27_MismatchAborts ==
  /\ [](mismatch # "none" =>
         /\ mm_ret = "False"
         /\ mm_pc = "done"
         /\ downloads # <<>>
         /\ downloads[Len(downloads)] = mismatch
         /\ Cardinality({k \in 1..Len(downloads) : downloads[k] = mismatch}) = 1
         /\ mismatch \notin extracted)
  /\ [][mismatch # "none" => UNCHANGED <<downloads, extracted, disk, mm_ret>>]_vars

\* the bin file came down with a wrong hash while the coreml asset was
\* still to be fetched
C27_Witness ==
  /\ mismatch = "ggml"
  /\ missing_files = <<"ggml", "coreml">>
  /\ mm_pc = "done"


\* C28: models.json is replaced atomically: whenever it exists it is a
\* complete catalog text (the previous one or the new one), also while a
\* write is under way or after one was interrupted; never a partial text.
C28_AtomicReplace ==
  catalog_file.exists => IsJson(catalog_file.text)

\* an asset entry carries url, size and sha256
AssetComplete(asset) == {"url", "size", "sha256"} \subseteq DOMAIN asset

\* what C29 calls an acceptable catalog
Acceptable(mi, sys) ==
  /\ mi # <<>>
  /\ \A k \in 1..Len(mi) :
       LET model_data == mi[k].data IN
         /\ "bin" \in DOMAIN model_data
         /\ AssetComplete(model_data.bin)
         /\ sys = "Darwin" => /\ "coreml" \in DOMAIN model_data
                              /\ AssetComplete(model_data.coreml)

\* C29: validate_model_info accepts a catalog exactly when it is not empty
\* and every entry has a bin asset with url, size and sha256 (and a coreml
\* asset on Darwin); so a catalog that fetch_available_models assembled,
\* written and read back, is accepted.
C29_ValidationExact ==
  cat_pc = "validated" =>
    (accepted = "True" <=> Acceptable(read_back, system))


\* C30: each of the three pipeline queues is bounded: it has a capacity
\* that the number of undelivered items never exceeds, a put on a full
\* queue waiting instead. Stated for the files offered: no queue ever
\* holds all MaxFiles of them at once, however many they are.
C30_QueuesBounded ==
  /\ Len(decoding_queue) < MaxFiles
  /\ Len(transcribing_queue) < MaxFiles
  /\ Len(output_queue) < MaxFiles


\* C31: once shutdown has reached the Decoder, every Job in the decoding
\* queue and the Job already dequeued are decoded and forwarded (or
\* error-logged) before the thread exits: the thread never exits with Jobs
\* left in the decoding queue and never lets go of a dequeued Job.
C31_DrainBeforeExit ==
  left_at_exit = {}

\* C32: when the decoding of a Job fails, the error is logged, the Job is
\* not put on the transcribing queue, and the thread is back at the top of
\* its loop, alive for the next Job; no Job with an error line is ever on
\* the transcribing queue, and every Job there has its audio.
C32_DecodeFailure ==
  /\ [](\A k \in 1..Len(dec_out) :
         dec_out[k].id \notin dec_log /\ dec_out[k].audio)
  /\ [][dec_log' # dec_log =>
          /\ dec_out' = dec_out
          /\ transcription' = NoJob
          /\ dec_pc' = "wait"]_vars

\* the first Job failed to decode and the second one was decoded and
\* forwarded after it
C32_Witness ==
  /\ 1 \in dec_log
  /\ \E k \in 1..Len(dec_out) : dec_out[k].id = 2 /\ dec_out[k].audio

\* C34: every temporary WAV file _load_audio made is gone when _load_audio
\* has returned or raised: outside the try block no temporary file exists,
\* whatever ffmpeg and the reading of the converted file did.
C34_TempFilesRemoved ==
  dec_pc \notin {"ffmpeg", "read", "finally"} => temp_files = {}

\* a conversion that failed after its temporary file was made, and one
\* that succeeded
C34_Witness ==
  /\ dec_pc = "wait"
  /\ 1 \in temps_made /\ 1 \in dec_log
  /\ 2 \in temps_made /\ 2 \notin dec_log


\* C33: every sample read from a WAV file is a signed 16-bit value, and
\* the waveform value made of it, s / 32767, lies in [-1.0, 1.0].
C33_WaveformRange ==
  /\ samples \in -32768..32767
  /\ InUnitRange(audio_array)

\* the part of C33 that holds: a sample is a signed 16-bit value, and a
\* waveform value is never above 1.0
C33_Int16AndUpper ==
  /\ samples \in -32768..32767
  /\ audio_array.num <= audio_array.den


\* the text with the given matches wrapped, each in the tags of its colour:
\* the tags are put in from the last match to the first
RECURSIVE Wrap(_, _)
Wrap(str, ranges) ==
  IF ranges = {} THEN str
  ELSE LET last == CHOOSE r \in ranges : \A q \in ranges : q.start <= r.start
           closed == insert_string(str, closing_tag(last.color), last.end)
           opened == insert_string(closed, opening_tag(last.color), last.start)
       IN Wrap(opened, ranges \ {last})

\* C35: for any transcript and rule set, also with several phrases
\* matching, _highlight_text returns the transcript with exactly the
\* matched ranges wrapped, each in the tags of its colour, and no match
\* lies in a region wrapped before it.
C35_WrapsMatches ==
  ht_pc = "returned" =>
    /\ \A k1, k2 \in 1..Len(wrapped) :
         k1 # k2 => \/ wrapped[k1].end <= wrapped[k2].start
                    \/ wrapped[k2].end <= wrapped[k1].start
    /\ highlighted_text = Wrap(ht_text, {wrapped[k] : k \in 1..Len(wrapped)})

\* the part of C35 that holds: with one colour of one phrase, exactly the
\* occurrences of the phrase are wrapped, whatever the case of their letters
C35_OneColour ==
  (ht_pc = "returned" /\ Len(colors_items) = 1 /\ Len(colors_items[1].phrases) = 1) =>
    highlighted_text = Wrap(ht_text, {wrapped[k] : k \in 1..Len(wrapped)})


\* C36: TrackedQueue.size() is never negative, whatever the interleaving
\* of put and get, also when a get finishes before the put of its item has
\* incremented the counter.
C36_SizeNeverNegative ==
  size >= 0

\* a get took the item and went through its decrement while the put of
\* that item had not yet incremented the counter
C36_Witness ==
  /\ n_put = 1 /\ put_pc = "lock"
  /\ n_got = 1 /\ get_pc = "idle"
  /\ size = 0


\* C37: whenever the status in the shared map is RUNNING, the worker has
\* written system_info: it is no longer the placeholder "Unknown" that
\* Transcriber.__init__ put there.
C37_RunningHasSystemInfo ==
  shared_dict.status = RUNNING => shared_dict.system_info # "Unknown"

\* a running worker whose system information could not be parsed
C37_Witness ==
  /\ shared_dict.status = RUNNING
  /\ shared_dict.system_info = "<unknown>"


\* the phases of the worker, in their order; ERROR and SHUTDOWN are last
Phase(st) ==
  CASE st = INITIALISED -> 0
    [] st = LOADING -> 1
    [] st = RUNNING -> 2
    [] st \in {ERROR, SHUTDOWN} -> 3

\* C40: the worker status never moves backwards: every write is to a phase
\* not earlier than the current one, RUNNING is never written over ERROR
\* or SHUTDOWN, and SHUTDOWN never changes again.
C40_StatusForward ==
  [][/\ Phase(shared_dict'.status) >= Phase(shared_dict.status)
     /\ shared_dict.status \in {ERROR, SHUTDOWN} => shared_dict'.status # RUNNING
     /\ shared_dict.status = SHUTDOWN => shared_dict'.status = SHUTDOWN]_vars

\* a worker whose model failed to load: LOADING, ERROR, then SHUTDOWN
C40_Witness ==
  /\ shared_dict.status = SHUTDOWN
  /\ loader_invoked
  /\ ~ever_running


\* C39: a reload of colors.yaml that yields no valid colour entry leaves
\* the Watcher's rules and the shared map as they were; rules once set are
\* never emptied: the Watcher's rules stay non-empty, and the shared map
\* is empty again only between the clear and the update of a reload.
C39_EmptyReloadKeepsRules ==
  /\ [][(reload_pc = "parse" /\ colors_file.yaml_ok /\ colors_file.rules = {})
          => /\ colors' = colors
             /\ shared_colors' = shared_colors
             /\ reload_pc' \in {"parse", "idle"}]_vars
  /\ [][colors # {} => colors' # {}]_vars
  /\ []((shared_colors = {} /\ installed # {{}}) => reload_pc = "update")

\* a rule set was installed and a second reload, of a file without a valid
\* colour, has ended
C39_Witness ==
  /\ reload_pc = "idle"
  /\ reloads = 2
  /\ colors_file.yaml_ok /\ colors_file.rules = {}
  /\ colors \in RuleSets
  /\ shared_colors = colors


\* C38: whenever the worker is between items, the Jobs it has taken from
\* the transcribing queue are as many as those it has put on the output
\* queue plus error_count: each Job taken was either forwarded or counted
\* as an error, never both and never neither.
C38_WorkerConservation ==
  worker_pc = "loop" =>
    /\ Cardinality(dequeued) = Cardinality(forwarded) + shared_dict.error_count
    /\ dequeued = forwarded \cup raised
    /\ forwarded \cap raised = {}

\* the worker is between items after one Job forwarded and one counted as
\* an error
C38_Witness ==
  /\ worker_pc = "loop"
  /\ Cardinality(forwarded) = 1
  /\ shared_dict.error_count = 1

====
